---- MODULE Spec2Model ----
(***************************************************************************)
(* A model of the ftlengine formation machinery: the container graph, the  *)
(* formation / instance model, host introspection, and the parallel        *)
(* dependency-aware FormationRunner with its per-name lock set.            *)
(*                                                                         *)
(* Modelling notes                                                         *)
(*  - ContainerInstance is decorated with attr.s(hash=False) and no        *)
(*    auto_detect, so attrs generates __eq__/__ne__ from the only field    *)
(*    that takes part in equality (name) and replaces the hand-written     *)
(*    ones: two instances are equal iff they have the same class and the   *)
(*    same name; an instance and a str are never equal.                    *)
(*  - A link value is either a ContainerInstance ("ref") or a runtime-name *)
(*    string ("str").  A links dict is modelled as the set of its items    *)
(*    [alias, kind, name]; dict equality is then set equality.             *)
(***************************************************************************)
EXTENDS Integers, Sequences, FiniteSets, TLC

(***************************************************************************)
(* Universe                                                                *)
(***************************************************************************)
Names == {"api", "db", "web"}

\* sorted() order of containers / instances (attrs order=True: by name)
NameOrder == <<"api", "db", "web">>

Prefix == "demo"

\* formation.py:111  "{}.{}.1".format(self.graph.prefix, container.name)
RuntimeName(c) == <<Prefix, c, 1>>

RNames == {RuntimeName(c) : c \in Names}

\* the container a runtime name of this graph belongs to
ContainerOfName(rn) == rn[2]

None == "None"

\* the links a chart may declare: api -> db, web -> api, db -> web
PotentialLinks == [api |-> {"db"}, web |-> {"api"}, db |-> {"web"}]

\* the links of a chart without the back edge db -> web (an acyclic chart)
ForwardLinks == [api |-> {"db"}, web |-> {"api"}, db |-> {}]

\* ---- bounds of the model ----
\* idle driver iterations in a row while some worker is still running (every
\* collected worker resets the count, so these never add up to a deadlock)
MaxIdle == 2
\* 1-second sleeps a worker may spend waiting for a per-name lock
MaxSpin == 2
\* runners sharing the process (outer runner, nested boot-container runner)
NumRunners == 2

\* ---- program constants ----
DeadlockIdle_late == 10 + 1

\* runner.py:110  idle_iterations > 10
DeadlockIdle == 10

RunnerIds == 1 .. NumRunners

\* a worker thread: the runner that spawned it and the instance it works on
Tids == RNames \X RunnerIds

TName(t) == t[1]

VARIABLES
    containers,          \* graph.containers: name -> static definition
    dependencies,        \* graph._dependencies: name -> set of names
    images,              \* host.images: name -> local image id or None
    host,                \* the engine: runtime name -> container state
    registry,            \* ImageRepository.registry: the cached handler
    client,              \* the calls made to host.client and to the registry
    App,                 \* the App object: its loaded plugins
    formation,           \* ContainerFormation.container_instances
    stop,                \* FormationRunner.stop
    pc,                  \* position of the driver thread in run()
    phase,               \* "none", "stop" or "start"
    to_stop,             \* run(): names to stop
    to_start,            \* run(): names to start
    current_formation,   \* the formation introspected at phase entry
    queued,              \* parallel_execute
    processing,          \* parallel_execute
    done,                \* parallel_execute
    idle_iterations,     \* parallel_execute
    error,               \* what run() raised, if anything
    wpc,                 \* worker thread -> position in its executor
    wkind,               \* worker thread -> "stop" or "start"
    wexc,                \* ExceptionalThread.__exception
    spins,               \* worker thread -> sleeps spent in entry_lock
    changing_containers, \* the process-global ThreadSet
    lastOp               \* the last formation / command call and its pre-state

\* App.__init__: no plugin loaded yet
NoApp == [plugins |-> <<>>]

graphVars == <<containers, dependencies>>
hostVars == <<images, host, registry, client, App>>
driverVars == <<stop, pc, phase, to_stop, to_start, current_formation,
                queued, processing, done, idle_iterations, error>>
workerVars == <<wpc, wkind, wexc, spins, changing_containers>>
vars == <<graphVars, hostVars, formation, driverVars, workerVars, lastOp>>

(***************************************************************************)
(* Sequences and sorting helpers                                           *)
(***************************************************************************)
SeqRange(s) == {s[k] : k \in 1 .. Len(s)}

\* rank of a container name / of an instance in sorted() order
NameRank == [c \in Names |-> CHOOSE k \in 1 .. Len(NameOrder) : NameOrder[k] = c]

InstanceRank == [rn \in RNames |-> NameRank[ContainerOfName(rn)]]

RECURSIVE SortedSeq(_, _)
SortedSeq(S, rank) ==
    IF S = {} THEN <<>>
    ELSE LET m == CHOOSE x \in S : \A y \in S : rank[x] <= rank[y]
         IN <<m>> \o SortedSeq(S \ {m}, rank)

(***************************************************************************)
(* utils/sorting.py  dependency_sort                                       *)
(***************************************************************************)
\* lines 11-19: breadth-first collection of mapping[node] = dependencies(node)
RECURSIVE SortCollect(_, _, _, _)
SortCollect(pending, mapped, depfn, rank) ==
    IF pending = <<>> THEN mapped
    ELSE LET current == Head(pending)
             fresh == {d \in depfn[current] :
                          d \notin SeqRange(pending) /\ d \notin mapped \cup {current}}
         IN SortCollect(Tail(pending) \o SortedSeq(fresh, rank),
                        mapped \cup {current}, depfn, rank)

\* a pass that appends every node without looking at its dependencies
SortPass_eager(keys, result, remaining, depfn) ==
    [result |-> result \o keys, remaining |-> {}]

\* lines 24-27: one pass over sorted(mapping.items())
RECURSIVE SortPass(_, _, _, _)
SortPass(keys, result, remaining, depfn) ==
    IF keys = <<>> THEN [result |-> result, remaining |-> remaining]
    ELSE LET node == Head(keys)
         IN IF depfn[node] \subseteq SeqRange(result)
            THEN SortPass(Tail(keys), Append(result, node), remaining \ {node}, depfn)
            ELSE SortPass(Tail(keys), result, remaining, depfn)

\* lines 21-30: passes until the mapping is empty; no progress is a cycle
RECURSIVE SortRounds(_, _, _, _)
SortRounds(remaining, result, depfn, rank) ==
    IF remaining = {} THEN [ok |-> TRUE, result |-> result]
    ELSE LET p == SortPass(SortedSeq(remaining, rank), result, remaining, depfn)
         IN IF p.remaining = remaining
            THEN [ok |-> FALSE, result |-> <<>>]
            ELSE SortRounds(p.remaining, p.result, depfn, rank)

\* dependency_sort(initial, dependencies); ok = FALSE is the ValueError
dependency_sort(initial, depfn, rank) ==
    SortRounds(SortCollect(SortedSeq(initial, rank), {}, depfn, rank), <<>>, depfn, rank)

\* result[:-1]
ButLast(s) == IF s = <<>> THEN <<>> ELSE SubSeq(s, 1, Len(s) - 1)

(***************************************************************************)
(* containers/graph.py                                                     *)
(***************************************************************************)
\* ContainerGraph.dependents as a function of the container
Dependents(deps) == [c \in Names |-> {d \in Names : c \in deps[d]}]

(***************************************************************************)
(* containers/formation.py  ContainerInstance                              *)
(***************************************************************************)
Truthy(x) == x = "True"

\* ContainerInstance(...) with the attr defaults and __attrs_post_init__
ContainerInstance(name, container, image_id, links, devmodes, environment, mem_limit, command, foreground) ==
    [name |-> name, container |-> container, image_id |-> image_id,
     links |-> links, devmodes |-> devmodes,
     ports |-> containers[container].ports,
     environment |-> environment, mem_limit |-> mem_limit,
     command |-> command, foreground |-> foreground]

\* ContainerInstance.resolve_links: a string target that is not in the
\* formation is deleted; one that is in the formation is looked up and the
\* result dropped (line 272 is an expression statement), so it stays a string
resolve_links(inst, F) ==
    [inst EXCEPT !.links = {l \in @ : l.kind = "ref" \/ l.name \in DOMAIN F}]

\* ContainerInstance.validate
validate(inst, F) ==
    LET r == IF \E l \in inst.links : l.kind = "str" THEN resolve_links(inst, F) ELSE inst
    IN [r EXCEPT
          !.links = {l \in @ : l.kind = "str"
                        \/ ContainerOfName(l.name) \in dependencies[inst.container]},
          !.devmodes = @ \cap containers[inst.container].devmodes]

\* ContainerFormation.validate
ValidateFormation(F) == [rn \in DOMAIN F |-> validate(F[rn], F)]

different_from_oneside(a, b) ==
    \/ [a EXCEPT !.foreground = None] # [b EXCEPT !.foreground = None]
    \/ Truthy(b.foreground)

\* ContainerInstance.different_from
different_from(a, b) ==
    \/ a.name # b.name
    \/ a.container # b.container
    \/ a.image_id # b.image_id
    \/ a.links # b.links
    \/ a.devmodes # b.devmodes
    \/ a.ports # b.ports
    \/ a.environment # b.environment
    \/ a.mem_limit # b.mem_limit
    \/ a.command # b.command
    \/ Truthy(b.foreground)
    \/ Truthy(a.foreground)

(***************************************************************************)
(* docker/introspect.py  FormationIntrospector                             *)
(***************************************************************************)
Absent == [state |-> "absent", label |-> None, image |-> None, links |-> {},
           environment |-> {}, mem_limit |-> 0]

\* _create_container: the instance built from inspect_container
CreateFromHost(h, rn) ==
    ContainerInstance(rn, h[rn].label, h[rn].image,
                      {[alias |-> l[2], kind |-> "str", name |-> l[1]] : l \in h[rn].links},
                      {}, {}, 0, None, None)

\* introspect: every running container of the network, then resolve_links
introspect(h) ==
    LET raw == [rn \in {r \in RNames : h[r].state = "running"} |-> CreateFromHost(h, rn)]
    IN [rn \in DOMAIN raw |-> resolve_links(raw[rn], raw)]

(***************************************************************************)
(* utils/threading.py  ThreadSet, ExceptionalThread                        *)
(***************************************************************************)
check_and_add_unlocked(value) == TRUE

\* ThreadSet.check_and_add: TRUE iff the value was absent (and is now added)
check_and_add(value) == value \notin changing_containers

\* a thread that is reported alive for ever once it has been started
is_alive_unending(t) == wpc[t] # "none"

\* Thread.is_alive
is_alive(t) == wpc[t] \notin {"none", "done", "raised"}

Finished(t) == wpc[t] \in {"done", "raised"}

maybe_raise_silent(t) == IF wexc[t] = "Interactive" THEN wexc[t] ELSE None

\* ExceptionalThread.maybe_raise: the stored exception, None when there is none
maybe_raise(t) == wexc[t]

\* the process is still running its command (daemon workers die with it)
ProcessLive == pc \notin {"raised", "exited"}

NoError == [kind |-> "none", names |-> {}]

(***************************************************************************)
(* docker/runner.py  FormationRunner.run                                   *)
(***************************************************************************)
ToStop_changed(F, cur) ==
    {rn \in DOMAIN F \cap DOMAIN cur : different_from(F[rn], cur[rn])}

\* lines 52-54 and 61-62
ToStop(F, cur) ==
    {rn \in DOMAIN cur : rn \notin DOMAIN F}
        \cup {rn \in DOMAIN F \cap DOMAIN cur : different_from(F[rn], cur[rn])}

\* lines 56-63
ToStart(F, cur) ==
    {rn \in DOMAIN F : rn \notin DOMAIN cur \/ different_from(F[rn], cur[rn])}

\* get_incoming_links as it would be if a link value equal to the instance's
\* name counted as the instance
get_incoming_links_named(cur) ==
    [rn \in RNames |-> {p \in DOMAIN cur : \E l \in cur[p].links : l.name = rn}]

\* stop_containers.get_incoming_links: "instance in links_to" compares the
\* instance with every link value; only an instance value of that name is equal
get_incoming_links(cur) ==
    [rn \in RNames |->
        {p \in DOMAIN cur : \E l \in cur[p].links : l.kind = "ref" /\ l.name = rn}]

\* the ready_to_execute lambda of stop_containers (line 143)
StopReady(rn) == get_incoming_links(current_formation)[rn] \subseteq done

StartReady_eager(rn) == \A l \in formation[rn].links : l.kind = "ref"

\* the ready_to_execute lambda of start_containers (line 174)
StartReady(rn) == \A l \in formation[rn].links : l.kind = "ref" /\ l.name \in done

ready_to_execute(rn) == IF phase = "stop" THEN StopReady(rn) ELSE StartReady(rn)

\* start_containers without the done= argument of line 176
EnterStart_fresh(starting) ==
    /\ current_formation' = introspect(host)
    /\ phase' = "start"
    /\ queued' = starting
    /\ processing' = {}
    /\ done' = {}
    /\ idle_iterations' = 0
    /\ pc' = "spawn"
    /\ error' = error

\* start_containers (lines 171-177) up to the first loop iteration
EnterStart(starting) ==
    LET cur == introspect(host)
    IN /\ current_formation' = cur
       /\ phase' = "start"
       /\ queued' = starting
       /\ processing' = {}
       /\ done' = DOMAIN cur
       /\ idle_iterations' = 0
       /\ pc' = "spawn"
       /\ error' = error

\* stop_containers (lines 126-145) up to the first loop iteration
EnterStop(stopping) ==
    LET cur == introspect(host)
        sorted == dependency_sort(stopping, get_incoming_links(cur), InstanceRank)
    IN /\ current_formation' = cur
       /\ phase' = "stop"
       /\ processing' = {}
       /\ done' = {}
       /\ idle_iterations' = 0
       /\ IF sorted.ok
          THEN /\ queued' = SeqRange(sorted.result)
               /\ pc' = "spawn"
               /\ error' = error
          ELSE /\ queued' = {}
               /\ pc' = "raised"
               /\ error' = [kind |-> "ValueError", names |-> stopping]

\* run(), lines 44-69, up to the first phase
Run ==
    /\ pc = "init"
    /\ LET F == ValidateFormation(formation)
           cur == introspect(host)
           stopping == ToStop(F, cur)
           starting == ToStart(F, cur)
       IN /\ formation' = F
          /\ to_stop' = stopping
          /\ to_start' = starting
          /\ IF stopping # {} /\ stop
             THEN EnterStop(stopping)
             ELSE IF starting # {}
                  THEN EnterStart(starting)
                  ELSE /\ pc' = "returned"
                       /\ UNCHANGED <<phase, current_formation, queued, processing,
                                      done, idle_iterations, error>>
    /\ UNCHANGED <<graphVars, hostVars, stop, workerVars, lastOp>>

(***************************************************************************)
(* docker/runner.py  FormationRunner.parallel_execute                      *)
(***************************************************************************)
Mine(rn) == <<rn, 1>>

\* lines 85-95: start a thread for every queued instance that is ready
DriverSpawn ==
    /\ pc = "spawn"
    /\ LET S == {rn \in queued : ready_to_execute(rn)}
       IN /\ wpc' = [t \in Tids |-> IF t[2] = 1 /\ t[1] \in S THEN "lock" ELSE wpc[t]]
          /\ wkind' = [t \in Tids |-> IF t[2] = 1 /\ t[1] \in S THEN phase ELSE wkind[t]]
          /\ wexc' = [t \in Tids |-> IF t[2] = 1 /\ t[1] \in S THEN None ELSE wexc[t]]
          /\ spins' = [t \in Tids |-> IF t[2] = 1 /\ t[1] \in S THEN 0 ELSE spins[t]]
          /\ queued' = queued \ S
          /\ processing' = processing \cup S
          /\ idle_iterations' = IF S # {} THEN 0 ELSE idle_iterations
    /\ pc' = "collect"
    /\ UNCHANGED <<graphVars, hostVars, formation, stop, phase, to_stop, to_start,
                   current_formation, done, error, changing_containers, lastOp>>

\* lines 104-106: the handler attaches a PTY to the created container, removes
\* the container when the session ends, and the process exits
RunHandler(rn) == host' = [host EXCEPT ![rn] = Absent]

\* lines 97-108: collect the threads that are no longer alive, in the (arbitrary)
\* iteration order of the set; the first one that holds an exception raises
DriverCollect ==
    /\ pc = "collect"
    /\ LET fin == {rn \in processing : ~is_alive(Mine(rn))}
           bad == {rn \in fin : maybe_raise(Mine(rn)) # None}
       IN \/ /\ bad = {}
             /\ processing' = processing \ fin
             /\ done' = done \cup fin
             /\ idle_iterations' = IF fin # {} THEN 0 ELSE idle_iterations
             /\ pc' = "check"
             /\ UNCHANGED <<error, host>>
          \/ \E r \in bad : \E before \in SUBSET (fin \ bad) :
                /\ processing' = processing \ (before \cup {r})
                /\ done' = done \cup before \cup {r}
                /\ idle_iterations' = IF before # {} THEN 0 ELSE idle_iterations
                /\ IF maybe_raise(Mine(r)) = "Interactive"
                   THEN /\ RunHandler(r)
                        /\ pc' = "exited"
                        /\ error' = error
                   ELSE /\ pc' = "raised"
                        /\ error' = [kind |-> maybe_raise(Mine(r)), names |-> {r}]
                        /\ host' = host
    /\ UNCHANGED <<graphVars, images, registry, client, App, formation, stop, phase,
                   to_stop, to_start,
                   current_formation, queued, workerVars, lastOp>>

\* lines 109-118 and the loop condition of line 83
DriverCheck ==
    /\ pc = "check"
    /\ IF idle_iterations > DeadlockIdle /\ queued # {} /\ processing = {}
       THEN /\ pc' = "raised"
            /\ error' = [kind |-> "Deadlock", names |-> queued]
            /\ UNCHANGED <<phase, current_formation, queued, processing, done,
                           idle_iterations>>
       ELSE /\ \/ processing = {}
               \/ idle_iterations < MaxIdle
               \/ \E rn \in processing : ~is_alive(Mine(rn))
            /\ IF queued # {} \/ processing # {}
               THEN /\ idle_iterations' = idle_iterations + 1
                    /\ pc' = "spawn"
                    /\ UNCHANGED <<phase, current_formation, queued, processing,
                                   done, error>>
               ELSE IF phase = "stop" /\ to_start # {}
                    THEN EnterStart(to_start)
                    ELSE /\ pc' = "returned"
                         /\ idle_iterations' = idle_iterations + 1
                         /\ UNCHANGED <<phase, current_formation, queued, processing,
                                        done, error>>
    /\ UNCHANGED <<graphVars, hostVars, formation, stop, to_stop, to_start,
                   workerVars, lastOp>>

(***************************************************************************)
(* docker/runner.py  the executors, run in worker threads                  *)
(***************************************************************************)
\* start_container line 195, evaluated before the lock is requested
RejectsAbstract(t) ==
    /\ wkind[t] = "start"
    /\ containers[formation[TName(t)].container].abstract
    /\ ~Truthy(formation[TName(t)].foreground)

\* the worker raises: ExceptionalThread.run stores the exception (line 33)
Raise(t, exc) ==
    /\ wpc' = [wpc EXCEPT ![t] = "raised"]
    /\ wexc' = [wexc EXCEPT ![t] = exc]

\* entry_lock line 69, reached when the with-body ends without an exception
Release(t) == changing_containers' = changing_containers \ {TName(t)}

\* entry_lock when the with-body raises: the generator is resumed with the
\* exception at the yield, which is not inside try/finally, so line 69 is skipped
ReleaseOnRaise(t) == changing_containers' = changing_containers

WorkerAbstract(t) ==
    /\ ProcessLive
    /\ wpc[t] = "lock"
    /\ RejectsAbstract(t)
    /\ Raise(t, "ValueError")
    /\ UNCHANGED <<graphVars, hostVars, formation, driverVars, wkind, spins,
                   changing_containers, lastOp>>

\* entry_lock lines 66-68: check_and_add succeeded
WorkerAcquire(t) ==
    /\ ProcessLive
    /\ wpc[t] = "lock"
    /\ ~RejectsAbstract(t)
    /\ check_and_add(TName(t))
    /\ changing_containers' = changing_containers \cup {TName(t)}
    /\ wpc' = [wpc EXCEPT ![t] = "body"]
    /\ UNCHANGED <<graphVars, hostVars, formation, driverVars, wkind, wexc, spins, lastOp>>

\* entry_lock lines 66-67: check_and_add failed, sleep and try again
WorkerSpin(t) ==
    /\ ProcessLive
    /\ wpc[t] = "lock"
    /\ ~RejectsAbstract(t)
    /\ ~check_and_add(TName(t))
    /\ spins[t] < MaxSpin
    /\ spins' = [spins EXCEPT ![t] = @ + 1]
    /\ UNCHANGED <<graphVars, hostVars, formation, driverVars, wpc, wkind, wexc,
                   changing_containers, lastOp>>

\* host.container_running(name, ignore_exists=True)
container_running(rn) == host[rn].state = "running"

\* stop_container lines 149-163
StopBody(t) ==
    /\ ProcessLive
    /\ wpc[t] = "body"
    /\ wkind[t] = "stop"
    /\ host' = IF container_running(TName(t))
               THEN [host EXCEPT ![TName(t)].state = "exited"]
               ELSE host
    /\ Release(t)
    /\ wpc' = [wpc EXCEPT ![t] = "done"]
    /\ UNCHANGED <<graphVars, images, registry, client, App, formation, driverVars, wkind,
                   wexc, spins, lastOp>>

\* create_container (lines 265-288) as the engine records it
Created(inst) ==
    [state |-> "created", label |-> inst.container, image |-> inst.image_id,
     links |-> {<<l.name, l.alias>> : l \in inst.links},
     environment |-> inst.environment, mem_limit |-> inst.mem_limit]

\* start_container lines 198-201: the container already runs, return
StartAlreadyRunning(t) ==
    /\ ProcessLive
    /\ wpc[t] = "body"
    /\ wkind[t] = "start"
    /\ container_running(TName(t))
    /\ Release(t)
    /\ wpc' = [wpc EXCEPT ![t] = "done"]
    /\ UNCHANGED <<graphVars, hostVars, formation, driverVars, wkind, wexc, spins, lastOp>>

\* start_container lines 202-288: remove_stopped, PRE_RUN_CONTAINER hooks,
\* network, volume binds, create_container
StartCreate(t) ==
    /\ ProcessLive
    /\ wpc[t] = "body"
    /\ wkind[t] = "start"
    /\ ~container_running(TName(t))
    /\ host' = [host EXCEPT ![TName(t)] = Created(formation[TName(t)])]
    /\ wpc' = [wpc EXCEPT ![t] = "created"]
    /\ UNCHANGED <<graphVars, images, registry, client, App, formation, driverVars, wkind,
                   wexc, spins,
                   changing_containers, lastOp>>

\* start_container lines 209 and 246-261: a hook raises, or a required volume
\* source or a devmode source does not exist (NotFoundException)
StartPreRunFails(t) ==
    /\ ProcessLive
    /\ wpc[t] = "body"
    /\ wkind[t] = "start"
    /\ ~container_running(TName(t))
    /\ host' = IF host[TName(t)].state = "absent" THEN host
               ELSE [host EXCEPT ![TName(t)] = Absent]
    /\ Raise(t, "NotFoundException")
    /\ ReleaseOnRaise(t)
    /\ UNCHANGED <<graphVars, images, registry, client, App, formation, driverVars, wkind,
                   spins, lastOp>>

\* a worker that starts the foreground container before it raises
StartForeground_started(t) ==
    /\ ProcessLive
    /\ wpc[t] = "created"
    /\ Truthy(formation[TName(t)].foreground)
    /\ host' = [host EXCEPT ![TName(t)].state = "running"]
    /\ Raise(t, "Interactive")
    /\ ReleaseOnRaise(t)
    /\ UNCHANGED <<graphVars, images, registry, client, App, formation, driverVars, wkind,
                   spins, lastOp>>

\* start_container lines 292-297: a foreground container is not started; the
\* worker raises DockerInteractiveException carrying the handler
StartForeground(t) ==
    /\ ProcessLive
    /\ wpc[t] = "created"
    /\ Truthy(formation[TName(t)].foreground)
    /\ Raise(t, "Interactive")
    /\ ReleaseOnRaise(t)
    /\ UNCHANGED <<graphVars, hostVars, formation, driverVars, wkind, spins, lastOp>>

\* start_container line 300: client.start
StartStart(t) ==
    /\ ProcessLive
    /\ wpc[t] = "created"
    /\ ~Truthy(formation[TName(t)].foreground)
    /\ host' = [host EXCEPT ![TName(t)].state = "running"]
    /\ wpc' = [wpc EXCEPT ![t] = "probe"]
    /\ UNCHANGED <<graphVars, images, registry, client, App, formation, driverVars, wkind,
                   wexc, spins,
                   changing_containers, lastOp>>

\* start_container lines 302-344: the probe reports finished=True, the hooks
\* run, the task finishes and the with-block ends
StartBooted(t) ==
    /\ ProcessLive
    /\ wpc[t] = "probe"
    /\ container_running(TName(t))
    /\ Release(t)
    /\ wpc' = [wpc EXCEPT ![t] = "done"]
    /\ UNCHANGED <<graphVars, hostVars, formation, driverVars, wkind, wexc, spins, lastOp>>

\* start_container lines 309-313 and 334-343: the container died during boot,
\* the probe reports finished=False and the worker raises BOOT_FAIL
StartBootFails(t) ==
    /\ ProcessLive
    /\ wpc[t] = "probe"
    /\ host' = [host EXCEPT ![TName(t)].state = "exited"]
    /\ Raise(t, "BOOT_FAIL")
    /\ ReleaseOnRaise(t)
    /\ UNCHANGED <<graphVars, images, registry, client, App, formation, driverVars, wkind,
                   spins, lastOp>>

\* the steps of a worker of a single run.  No two workers of one run share a
\* name and a running instance that is to be started has been stopped first,
\* so the sleeping branch of entry_lock and the early return of
\* start_container are not among them
Worker(t) ==
    \/ WorkerAbstract(t)
    \/ WorkerAcquire(t)
    \/ StopBody(t)
    \/ StartCreate(t)
    \/ StartPreRunFails(t)
    \/ StartForeground(t)
    \/ StartStart(t)
    \/ StartBooted(t)
    \/ StartBootFails(t)

(***************************************************************************)
(* Inputs of a run: a chart, a host and a desired formation                *)
(***************************************************************************)
NoOp == [op |-> "none", arg |-> None, ign |-> FALSE, ok |-> TRUE, pre |-> <<>>]

\* the one container of the chart that is special in this run, and how
ScenarioKinds == {"foreground", "abstract", "stale", "kept", "nodep"}

\* "shells": every container of the chart is a foreground container
Scenarios ==
    {[kind |-> "none", who |-> "api"], [kind |-> "shells", who |-> "api"]}
        \cup [kind : ScenarioKinds, who : Names]

CurrentImage == "img2"

StaleImage == "img1"

\* container.py: the attributes of a Container the model reads
Definition(sc, c) ==
    [foreground |-> (sc.kind = "foreground" /\ sc.who = c) \/ sc.kind = "shells",
     abstract |-> sc.kind = "abstract" /\ sc.who = c,
     environment |-> IF sc.kind = "environment" /\ sc.who = c THEN {"MODE=dev"} ELSE {},
     mem_limit |-> IF sc.kind = "mem_limit" /\ sc.who = c THEN 64 ELSE 0,
     ports |-> IF sc.kind = "ports" /\ sc.who = c THEN {"8080:80"} ELSE {},
     devmodes |-> {}]

\* a container the engine runs, started earlier from this chart
Running(sc, c) ==
    [state |-> "running", label |-> c,
     image |-> IF sc.kind = "stale" /\ sc.who = c THEN StaleImage ELSE CurrentImage,
     links |-> {<<RuntimeName(d), d>> : d \in ForwardLinks[c]},
     environment |-> {}, mem_limit |-> 0]

\* links to instances of this chart's containers, keyed by container name
RefLinks(targets) ==
    {[alias |-> d, kind |-> "ref", name |-> RuntimeName(d)] : d \in targets}

Desired_stale(c, links) ==
    ContainerInstance(RuntimeName(c), c, StaleImage, links, containers[c].devmodes,
        containers[c].environment, containers[c].mem_limit, None,
        IF containers[c].foreground THEN "True" ELSE "False")

\* the instance add_container builds (formation.py lines 110-119)
Desired(c, links) ==
    ContainerInstance(RuntimeName(c), c, images[c], links, containers[c].devmodes,
        containers[c].environment, containers[c].mem_limit, None,
        IF containers[c].foreground THEN "True" ELSE "False")

WorkersIdle ==
    /\ wpc = [t \in Tids |-> "none"]
    /\ wkind = [t \in Tids |-> "none"]
    /\ wexc = [t \in Tids |-> None]
    /\ spins = [t \in Tids |-> 0]
    /\ changing_containers = {}

DriverAt(position) ==
    /\ pc = position
    /\ phase = "none"
    /\ to_stop = {}
    /\ to_start = {}
    /\ current_formation = <<>>
    /\ queued = {}
    /\ processing = {}
    /\ done = {}
    /\ idle_iterations = 0
    /\ error = NoError

\* plugins/boot.py lines 88-105, the only caller that disables stop: the
\* formation is the introspected one plus containers that are not running
BootFormation ==
    \A rn \in DOMAIN formation :
        container_running(rn) =>
            ~different_from(validate(formation[rn], formation), introspect(host)[rn])

\* FormationRunner(host, formation, task, stop) for any desired formation over
\* the chart, any set of running containers and either value of stop
RunnerInitOver(scenarios) ==
    \E sc \in scenarios, D \in SUBSET Names, L \in SUBSET Names, R \in SUBSET Names :
        /\ L \subseteq D
        /\ sc.kind \in {"foreground", "abstract", "nodep"} => sc.who \in D
        /\ sc.kind = "stale" => sc.who \in R
        /\ sc.kind = "kept" => sc.who \in D \cap R
        /\ containers = [c \in Names |-> Definition(sc, c)]
        /\ dependencies = [c \in Names |->
               IF sc.kind = "nodep" /\ sc.who = c THEN {} ELSE PotentialLinks[c]]
        /\ images = [c \in Names |-> CurrentImage]
        /\ registry = None
        /\ client = <<>>
        /\ App = NoApp
        /\ host = [rn \in RNames |->
               IF ContainerOfName(rn) \in R THEN Running(sc, ContainerOfName(rn))
               ELSE Absent]
        /\ formation = [rn \in {RuntimeName(c) : c \in D} |->
               IF sc.kind = "kept" /\ sc.who = ContainerOfName(rn)
               THEN introspect(host)[rn]
               ELSE Desired(ContainerOfName(rn),
                            IF ContainerOfName(rn) \in L
                            THEN RefLinks(PotentialLinks[ContainerOfName(rn)]) ELSE {})]
        /\ stop \in BOOLEAN
        /\ stop \/ BootFormation
        /\ DriverAt("init")
        /\ WorkersIdle
        /\ lastOp = NoOp

RunnerInit == RunnerInitOver(Scenarios)

RunnerNext ==
    \/ Run
    \/ DriverSpawn
    \/ DriverCollect
    \/ DriverCheck
    \/ \E rn \in RNames : Worker(Mine(rn))

SpecRunner == RunnerInit /\ [][RunnerNext]_vars

(***************************************************************************)
(* Properties of the runner                                                *)
(***************************************************************************)
\* a worker of the current phase has been spawned for the instance
Spawned(rn) == wkind[Mine(rn)] = phase /\ wpc[Mine(rn)] # "none"

\* C1: in the start phase a worker for an instance is spawned only when, for
\* every link target of the instance, the start worker of the target has
\* finished or the target was in the formation introspected at phase entry.
C1_StartAfterLinks ==
    phase = "start" =>
        \A rn \in RNames : Spawned(rn) =>
            \A l \in formation[rn].links :
                \/ l.name \in DOMAIN current_formation
                \/ Spawned(l.name) /\ Finished(Mine(l.name))

\* a start worker runs whose link target was started by this phase
C1_Reached ==
    /\ phase = "start"
    /\ \E rn \in RNames :
          /\ Spawned(rn)
          /\ \E l \in formation[rn].links :
                /\ l.name \notin DOMAIN current_formation
                /\ Finished(Mine(l.name))

\* C2: in the stop phase a worker for an instance is spawned only after the
\* stop worker of every running instance that links to it has finished.
C2_StopAfterLinkers ==
    phase = "stop" =>
        \A rn \in RNames : Spawned(rn) =>
            \A p \in DOMAIN current_formation :
                (\E l \in current_formation[p].links : l.name = rn) =>
                    Spawned(p) /\ Finished(Mine(p))

\* C5: when run() with stop enabled returns, every instance of the desired
\* formation is running and no instance that was running and is absent from
\* the desired formation is still running.
C5_Converged ==
    (pc = "returned" /\ stop) =>
        /\ \A rn \in DOMAIN formation : container_running(rn)
        /\ \A rn \in RNames \ DOMAIN formation : ~container_running(rn)

\* run() returned after a stop phase and a start phase that both did work
C5_Reached ==
    /\ pc = "returned"
    /\ stop
    /\ to_stop \ DOMAIN formation # {}
    /\ \E rn \in to_start : \E l \in formation[rn].links : l.name \in to_start

\* C6: while instances are queued and no worker runs the driver never counts
\* more than 11 idle iterations, and the deadlock error it raises names
\* exactly the instances still queued.
C6_Deadlock ==
    /\ (pc \in {"spawn", "collect", "check"} /\ queued # {} /\ processing = {})
          => idle_iterations <= 11
    /\ error.kind = "Deadlock" =>
          /\ pc = "raised"
          /\ idle_iterations = 11
          /\ queued # {}
          /\ processing = {}
          /\ error.names = queued

\* the driver gave up on a queue nobody could serve
C6_Reached ==
    /\ error.kind = "Deadlock"
    /\ Cardinality(error.names) >= 2

\* C7: once a worker holding a non-interactive exception has been collected,
\* parallel_execute has raised that exception, no queued instance has a worker,
\* and no instance that links to the failed one has a worker in that phase.
C7_FailureStops ==
    \A r \in done :
        (Spawned(r) /\ wexc[Mine(r)] \notin {None, "Interactive"}) =>
            /\ pc = "raised"
            /\ error = [kind |-> wexc[Mine(r)], names |-> {r}]
            /\ \A rn \in queued : ~Spawned(rn)
            /\ \A rn \in RNames :
                  Spawned(rn) => \A l \in formation[rn].links : l.name # r

\* a start worker failed while an instance linking to it was still queued
C7_Reached ==
    /\ pc = "raised"
    /\ \E r \in error.names :
          /\ wexc[Mine(r)] = "BOOT_FAIL"
          /\ \E rn \in queued : \E l \in formation[rn].links : l.name = r

\* C4: whenever a worker has finished, normally, by an early return or by
\* raising, its name is no longer in the lock set.
C4_LockReleased ==
    \A rn \in RNames : Finished(Mine(rn)) => rn \notin changing_containers

(***************************************************************************)
(* The lock set under contention: workers of several runners of one        *)
(* process (the runner of the command and the nested runners the boot      *)
(* plugin starts from PRE_RUN_CONTAINER hooks) work on the same names      *)
(***************************************************************************)
LockContainers == {"api", "db"}

\* every runner has a worker for db, the command's runner also one for api
LockTids == {t \in Tids : TName(t) = RuntimeName("db") \/ t = Mine(RuntimeName("api"))}

LockScenarios ==
    {[kind |-> "none", who |-> "api"]}
        \cup [kind : {"foreground", "abstract"}, who : LockContainers]

LockInit ==
    \E sc \in LockScenarios, R \in SUBSET LockContainers :
        /\ containers = [c \in Names |-> Definition(sc, c)]
        /\ dependencies = [c \in Names |-> {}]
        /\ images = [c \in Names |-> CurrentImage]
        /\ registry = None
        /\ client = <<>>
        /\ App = NoApp
        /\ host = [rn \in RNames |->
               IF ContainerOfName(rn) \in R THEN Running(sc, ContainerOfName(rn))
               ELSE Absent]
        /\ formation = [rn \in RNames |-> Desired(ContainerOfName(rn), {})]
        /\ stop = TRUE
        /\ DriverAt("init")
        /\ WorkersIdle
        /\ lastOp = NoOp

\* parallel_execute lines 87-94 of some runner: a thread for the executor
LockSpawn(t, kind) ==
    /\ wpc[t] = "none"
    /\ wpc' = [wpc EXCEPT ![t] = "lock"]
    /\ wkind' = [wkind EXCEPT ![t] = kind]
    /\ UNCHANGED <<graphVars, hostVars, formation, driverVars, wexc, spins,
                   changing_containers, lastOp>>

LockNext ==
    \E t \in LockTids :
        \/ \E kind \in {"stop", "start"} : LockSpawn(t, kind)
        \/ WorkerAbstract(t)
        \/ WorkerAcquire(t)
        \/ WorkerSpin(t)
        \/ StopBody(t)
        \/ StartAlreadyRunning(t)
        \/ StartCreate(t)
        \/ StartPreRunFails(t)
        \/ StartForeground(t)
        \/ StartStart(t)
        \/ StartBooted(t)
        \/ StartBootFails(t)

SpecLock == LockInit /\ [][LockNext]_vars

\* the thread is inside the body of entry_lock
Inside(t) == wpc[t] \in {"body", "created", "probe"}

\* C3: at most one thread at a time is inside the entry_lock body for a
\* runtime name, whichever runners the threads belong to.
C3_MutualExclusion ==
    \A t1, t2 \in Tids :
        (Inside(t1) /\ Inside(t2) /\ TName(t1) = TName(t2)) => t1 = t2

\* a thread is inside for a name while a thread of another runner has slept
\* waiting for the same name, and a third thread is inside for another name
C3_Reached ==
    \E t1, t2, t3 \in Tids :
        /\ Inside(t1) /\ Inside(t3)
        /\ TName(t1) = TName(t2) /\ t1[2] # t2[2]
        /\ wpc[t2] = "lock" /\ spins[t2] > 0
        /\ TName(t3) # TName(t1)

(***************************************************************************)
(* containers/formation.py  ContainerFormation                             *)
(***************************************************************************)
\* add_instance: container_instances[instance.name] = instance
add_instance(F, inst) ==
    [rn \in DOMAIN F \cup {inst.name} |-> IF rn = inst.name THEN inst ELSE F[rn]]

\* add_container lines 90-92: the instance of the formation for the container
InstanceFor(F, c) == CHOOSE rn \in DOMAIN F : F[rn].container = c

RECURSIVE add_container(_, _, _)
RECURSIVE AddAncestry(_, _, _, _, _)
\* add_container lines 88-102: the loop over the dependency ancestry; the
\* result carries the formation, the links collected and the error, if any
AddAncestry(F, c, ancestry, links, ign) ==
    IF ancestry = <<>> THEN [ok |-> TRUE, formation |-> F, links |-> links]
    ELSE LET dependency == Head(ancestry)
             present == \E rn \in DOMAIN F : F[rn].container = dependency
             added == IF present THEN [ok |-> TRUE, formation |-> F]
                      ELSE add_container(F, dependency, ign)
         IN IF ~added.ok THEN [ok |-> FALSE, formation |-> added.formation, links |-> links]
            ELSE AddAncestry(added.formation, c, Tail(ancestry),
                     IF dependency \in dependencies[c]
                     THEN links \cup {[alias |-> dependency, kind |-> "ref",
                                       name |-> InstanceFor(added.formation, dependency)]}
                     ELSE links,
                     ign)

\* add_container lines 83-121; ok = FALSE is the ValueError of a cyclic chart
\* or the ImageNotFoundException of image_version
add_container(F, c, ign) ==
    LET sorted == dependency_sort({c}, dependencies, NameRank)
    IN IF ~sorted.ok THEN [ok |-> FALSE, formation |-> F]
       ELSE LET deps == AddAncestry(F, c, ButLast(sorted.result), {}, ign)
            IN IF ~deps.ok \/ (images[c] = None /\ ~ign)
               THEN [ok |-> FALSE, formation |-> deps.formation]
               ELSE [ok |-> TRUE,
                     formation |-> add_instance(deps.formation, Desired(c, deps.links))]

remove_instance_direct(F, deps, rn, ign) ==
    [ok |-> TRUE,
     formation |-> [o \in {x \in DOMAIN F \ {rn} : F[rn].container \notin deps[F[x].container]}
                       |-> F[o]],
     dependencies |-> deps]

\* remove_instance with line 61 left out: the graph keeps its edges
remove_instance_keeping_edges(F, deps, rn, ign) ==
    [ok |-> dependency_sort({F[rn].container}, Dependents(deps), NameRank).ok,
     formation |-> IF dependency_sort({F[rn].container}, Dependents(deps), NameRank).ok
                   THEN [o \in DOMAIN F \ {rn} |-> F[o]] ELSE F,
     dependencies |-> deps]

\* remove_instance lines 55-68; ok = FALSE is the ValueError of dependency_sort
remove_instance(F, deps, rn, ign) ==
    LET sorted == dependency_sort({F[rn].container}, Dependents(deps), NameRank)
        dependent_descendancy == SeqRange(ButLast(sorted.result))
        others == {o \in DOMAIN F : F[o].container \in dependent_descendancy}
    IN IF ~sorted.ok THEN [ok |-> FALSE, formation |-> F, dependencies |-> deps]
       ELSE IF ign
            THEN [ok |-> TRUE,
                  formation |-> [o \in DOMAIN F \ {rn} |-> F[o]],
                  dependencies |-> [c \in Names |->
                      IF \E o \in others : F[o].container = c
                      THEN deps[c] \ {F[rn].container} ELSE deps[c]]]
            ELSE [ok |-> TRUE,
                  formation |-> [o \in DOMAIN F \ (others \cup {rn}) |-> F[o]],
                  dependencies |-> deps]

\* the links a chart may declare in the formation checks: chains, a container
\* with two dependencies, and cycles of two and of three containers
ChartLinks == [api |-> {"db"}, web |-> {"api", "db"}, db |-> {"web"}]

Charts == {d \in [Names -> SUBSET Names] : \A c \in Names : d[c] \subseteq ChartLinks[c]}

\* a formation as the commands obtain it: introspected from a host
FormationInit ==
    \E sc \in {[kind |-> "none", who |-> "api"]} \cup [kind : {"stale", "noimage"}, who : Names] :
    \E R \in SUBSET Names, d \in Charts :
        /\ containers = [c \in Names |-> Definition(sc, c)]
        /\ dependencies = d
        /\ images = [c \in Names |->
               IF sc.kind = "noimage" /\ sc.who = c THEN None ELSE CurrentImage]
        /\ registry = None
        /\ client = <<>>
        /\ App = NoApp
        /\ host = [rn \in RNames |->
               IF ContainerOfName(rn) \in R THEN Running(sc, ContainerOfName(rn))
               ELSE Absent]
        /\ formation = introspect(host)
        /\ stop = TRUE
        /\ DriverAt("init")
        /\ WorkersIdle
        /\ lastOp = NoOp

AddContainer(c, ign) ==
    /\ LET r == add_container(formation, c, ign)
       IN /\ formation' = r.formation
          /\ lastOp' = [op |-> "add_container", arg |-> c, ign |-> ign, ok |-> r.ok,
                        pre |-> formation]
    /\ UNCHANGED <<graphVars, hostVars, driverVars, workerVars>>

RemoveInstance(rn, ign) ==
    /\ rn \in DOMAIN formation
    /\ LET r == remove_instance(formation, dependencies, rn, ign)
       IN /\ formation' = r.formation
          /\ dependencies' = r.dependencies
          /\ lastOp' = [op |-> "remove_instance", arg |-> ContainerOfName(rn), ign |-> ign,
                        ok |-> r.ok, pre |-> formation]
    /\ UNCHANGED <<containers, hostVars, driverVars, workerVars>>

FormationNext ==
    \/ \E c \in Names, ign \in BOOLEAN : AddContainer(c, ign)
    \/ \E rn \in RNames, ign \in BOOLEAN : RemoveInstance(rn, ign)

SpecFormation == FormationInit /\ [][FormationNext]_vars

\* the formation changed by remove_instance without ignore_dependencies
RemovedFrom == lastOp.op = "remove_instance" /\ lastOp.ok /\ ~lastOp.ign

RECURSIVE DependentsClosure(_)
DependentsClosure(S) ==
    LET more == S \cup {d \in Names : \E c \in S : c \in dependencies[d]}
    IN IF more = S THEN S ELSE DependentsClosure(more)

\* the containers that depend on the container, directly or through others
TransitiveDependents(c) == DependentsClosure({d \in Names : c \in dependencies[d]})

\* C10: after remove_instance(i) without ignore_dependencies the formation
\* holds neither i nor any instance whose container transitively depends on
\* the container of i, and holds every other instance as it was.
C10_RemoveCascades ==
    RemovedFrom =>
        /\ DOMAIN formation =
              {rn \in DOMAIN lastOp.pre :
                  /\ rn # RuntimeName(lastOp.arg)
                  /\ lastOp.pre[rn].container \notin TransitiveDependents(lastOp.arg)}
        /\ \A rn \in DOMAIN formation : formation[rn] = lastOp.pre[rn]

\* an instance was removed together with a dependent of a dependent
C10_Reached ==
    /\ RemovedFrom
    /\ \E rn \in DOMAIN lastOp.pre :
          /\ lastOp.arg \notin dependencies[lastOp.pre[rn].container]
          /\ lastOp.pre[rn].container \in TransitiveDependents(lastOp.arg)
          /\ rn \notin DOMAIN formation

\* add_container returned for a container the formation already had
AddedAgain ==
    /\ lastOp.op = "add_container"
    /\ lastOp.ok
    /\ \E rn \in DOMAIN lastOp.pre : lastOp.pre[rn].container = lastOp.arg

\* C9 as stated: add_container(c) on a formation that already holds an
\* instance for c leaves the formation unchanged, the existing instance kept.
C9_AddIsNoOp == AddedAgain => formation = lastOp.pre

\* C9 as the code has it: add_container(c) on a formation that already holds
\* an instance for c keeps every other instance unchanged and replaces the
\* instance of c by a newly built one (image id looked up again, links to the
\* instances of the direct dependencies, no command, foreground, environment
\* and mem_limit of the container); calling it again changes nothing more.
C9_AddReplaces ==
    AddedAgain =>
        LET c == lastOp.arg
            new == formation[RuntimeName(c)]
        IN /\ \A rn \in DOMAIN lastOp.pre \ {RuntimeName(c)} :
                 rn \in DOMAIN formation /\ formation[rn] = lastOp.pre[rn]
           /\ new.container = c
           /\ new.image_id = images[c]
           /\ new.command = None
           /\ new.foreground = (IF containers[c].foreground THEN "True" ELSE "False")
           /\ new.environment = containers[c].environment
           /\ new.mem_limit = containers[c].mem_limit
           /\ {l.alias : l \in new.links} = dependencies[c]
           /\ \A l \in new.links :
                 /\ l.kind = "ref"
                 /\ l.name \in DOMAIN formation
                 /\ formation[l.name].container = l.alias
           /\ add_container(formation, c, lastOp.ign).formation = formation

\* the instance add_container replaced differed from the one it built
C9_Reached ==
    /\ AddedAgain
    /\ formation[RuntimeName(lastOp.arg)] # lastOp.pre[RuntimeName(lastOp.arg)]
    /\ formation[RuntimeName(lastOp.arg)].links # {}

(***************************************************************************)
(* plugins/run.py  the run command, one process per command                 *)
(***************************************************************************)
CommandScenarios ==
    {[kind |-> "none", who |-> "api"]}
        \cup [kind : {"foreground", "abstract", "environment", "mem_limit"}, who : Names]

CommandInit ==
    \E sc \in CommandScenarios, R \in SUBSET Names :
        /\ containers = [c \in Names |-> Definition(sc, c)]
        /\ dependencies = ForwardLinks
        /\ images = [c \in Names |-> CurrentImage]
        /\ registry = None
        /\ client = <<>>
        /\ App = NoApp
        /\ host = [rn \in RNames |->
               IF ContainerOfName(rn) \in R THEN Running(sc, ContainerOfName(rn))
               ELSE Absent]
        /\ formation = <<>>
        /\ stop = TRUE
        /\ DriverAt("idle")
        /\ WorkersIdle
        /\ lastOp = NoOp

\* run(app, containers=(c,), host): lines 48-74, up to the runner's run()
RunCommand(c) ==
    /\ pc \in {"idle", "returned", "raised", "exited"}
    /\ LET added == add_container(introspect(host), c, FALSE)
       IN /\ formation' = added.formation
          /\ pc' = IF added.ok THEN "init" ELSE "exited"
          /\ lastOp' = [op |-> "run", arg |-> c, ign |-> FALSE, ok |-> added.ok,
                        pre |-> [arg |-> lastOp.arg,
                                 ok |-> lastOp.op = "run" /\ pc = "returned"]]
    /\ phase' = "none"
    /\ to_stop' = {}
    /\ to_start' = {}
    /\ current_formation' = <<>>
    /\ queued' = {}
    /\ processing' = {}
    /\ done' = {}
    /\ idle_iterations' = 0
    /\ error' = NoError
    /\ wpc' = [t \in Tids |-> "none"]
    /\ wkind' = [t \in Tids |-> "none"]
    /\ wexc' = [t \in Tids |-> None]
    /\ spins' = [t \in Tids |-> 0]
    /\ changing_containers' = {}
    /\ UNCHANGED <<graphVars, hostVars, stop>>

CommandNext ==
    \/ \E c \in Names : RunCommand(c)
    \/ RunnerNext

SpecCommand == CommandInit /\ [][CommandNext]_vars

\* C8: a second `run c` on a host unchanged since a first successful `run c`
\* computes an empty stop set and an empty start set.
C8_SecondRunIdle ==
    (/\ lastOp.op = "run"
     /\ lastOp.pre.ok
     /\ lastOp.pre.arg = lastOp.arg
     /\ pc \notin {"idle", "init"})
        => to_stop = {} /\ to_start = {}

(***************************************************************************)
(* containers/formation.py  clone and different_from on arbitrary          *)
(* instances                                                               *)
(***************************************************************************)
clone_bare(inst) ==
    [inst EXCEPT !.command = None,
                 !.ports = @ \cup containers[inst.container].ports]

\* ContainerInstance.clone (lines 220-235): a new instance from the fields of
\* this one; __attrs_post_init__ adds the ports of the container
clone(inst) ==
    [name |-> inst.name, container |-> inst.container, image_id |-> inst.image_id,
     links |-> inst.links, devmodes |-> inst.devmodes,
     ports |-> inst.ports \cup containers[inst.container].ports,
     environment |-> inst.environment, mem_limit |-> inst.mem_limit,
     command |-> inst.command, foreground |-> inst.foreground]

\* ContainerFormation.clone (lines 123-131)
CloneFormation(F) == [rn \in DOMAIN F |-> clone(F[rn])]

\* the clone is given the ports dict of the original, so the update of
\* __attrs_post_init__ shows in the original as well
SharedPorts(F) ==
    [rn \in DOMAIN F |->
        [F[rn] EXCEPT !.ports = @ \cup containers[F[rn].container].ports]]

TheInstance == RuntimeName("db")

\* values of the fields different_from reads
LinkValues ==
    {{}, {[alias |-> "web", kind |-> "ref", name |-> RuntimeName("web")]},
         {[alias |-> "web", kind |-> "str", name |-> RuntimeName("web")]}}

SomeInstances ==
    [name : {TheInstance}, container : {"db"}, image_id : {CurrentImage},
     links : LinkValues, devmodes : {{}}, ports : {{}},
     environment : {{}, {"MODE=dev"}}, mem_limit : {0},
     command : {None, "sh"}, foreground : {None, "True", "False"}]

OtherInstances ==
    [name : {TheInstance, RuntimeName("api")}, container : {"db"},
     image_id : {CurrentImage, StaleImage},
     links : LinkValues, devmodes : {{}}, ports : {{}, {"8080:80"}},
     environment : {{}, {"MODE=dev"}}, mem_limit : {0, 64},
     command : {None, "sh"}, foreground : {None, "True", "False"}]

\* two formations of one instance each, over a chart whose db may publish a port
InstanceInit ==
    \E sc \in {[kind |-> "none", who |-> "db"], [kind |-> "ports", who |-> "db"]} :
    \E a \in SomeInstances, b \in OtherInstances :
        /\ containers = [c \in Names |-> Definition(sc, c)]
        /\ dependencies = ChartLinks
        /\ images = [c \in Names |-> CurrentImage]
        /\ registry = None
        /\ client = <<>>
        /\ App = NoApp
        /\ host = [rn \in RNames |-> Absent]
        /\ formation = [rn \in {a.name} |-> a]
        /\ current_formation = [rn \in {b.name} |-> b]
        /\ stop = TRUE
        /\ pc = "idle"
        /\ phase = "none"
        /\ to_stop = {}
        /\ to_start = {}
        /\ queued = {}
        /\ processing = {}
        /\ done = {}
        /\ idle_iterations = 0
        /\ error = NoError
        /\ WorkersIdle
        /\ lastOp = NoOp

TheOther == current_formation[CHOOSE rn \in DOMAIN current_formation : TRUE]

\* a.different_from(b), with b.different_from(a) and a.different_from(a)
\* evaluated alongside
Compare ==
    /\ lastOp.op = "none"
    /\ lastOp' = [op |-> "different_from", arg |-> None, ign |-> FALSE,
                  ok |-> different_from(formation[TheInstance], TheOther),
                  pre |-> [swapped |-> different_from(TheOther, formation[TheInstance]),
                           self |-> different_from(formation[TheInstance],
                                                   formation[TheInstance])]]
    /\ UNCHANGED <<graphVars, hostVars, formation, driverVars, workerVars>>

\* current_formation = formation.clone()
Clone ==
    /\ lastOp.op = "none"
    /\ formation' = SharedPorts(formation)
    /\ current_formation' = CloneFormation(formation)
    /\ lastOp' = [op |-> "clone", arg |-> None, ign |-> FALSE, ok |-> TRUE, pre |-> formation]
    /\ UNCHANGED <<graphVars, hostVars, stop, pc, phase, to_stop, to_start, queued,
                   processing, done, idle_iterations, error, workerVars>>

InstanceNext == Compare \/ Clone

SpecInstance == InstanceInit /\ [][InstanceNext]_vars

Cloned == lastOp.op = "clone"

\* C11 as stated: every instance of f.clone() compared with different_from
\* against the same-named instance of f yields false, foreground or not.
C11_CloneNotDifferent ==
    Cloned =>
        \A rn \in DOMAIN formation :
            ~different_from(current_formation[rn], formation[rn])

\* C11 as the code has it: the formation and its clone hold the same names,
\* and an instance of the clone compared with different_from against the
\* same-named original yields true exactly when the foreground flag is set.
C11_CloneDiffersOnForeground ==
    Cloned =>
        /\ DOMAIN current_formation = DOMAIN formation
        /\ \A rn \in DOMAIN formation :
              different_from(current_formation[rn], formation[rn])
                  <=> Truthy(formation[rn].foreground)

\* a background instance with links, a command and new container ports cloned
C11_Reached ==
    /\ Cloned
    /\ \E rn \in DOMAIN formation :
          /\ ~Truthy(formation[rn].foreground)
          /\ formation[rn].links # {}
          /\ formation[rn].command # None
          /\ lastOp.pre[rn].ports # formation[rn].ports

Compared == lastOp.op = "different_from"

\* C12 as stated: different_from is symmetric, and a.different_from(a) is
\* false for every instance a, foreground or not.
C12_SymmetricIrreflexive ==
    Compared => (lastOp.ok <=> lastOp.pre.swapped) /\ ~lastOp.pre.self

\* C12 as the code has it: different_from is symmetric, and
\* a.different_from(a) is true exactly when the foreground flag of a is set.
C12_SymmetricForeground ==
    Compared =>
        /\ lastOp.ok <=> lastOp.pre.swapped
        /\ lastOp.pre.self <=> Truthy(formation[TheInstance].foreground)

\* two background instances that differ in a single field were compared
C12_Reached ==
    /\ Compared
    /\ lastOp.ok
    /\ ~Truthy(TheOther.foreground) /\ ~Truthy(formation[TheInstance].foreground)
    /\ TheOther.name = TheInstance
    /\ TheOther.image_id = formation[TheInstance].image_id
    /\ TheOther.links = formation[TheInstance].links
    /\ TheOther.environment = formation[TheInstance].environment
    /\ TheOther.ports = formation[TheInstance].ports
    /\ TheOther.command = formation[TheInstance].command

(***************************************************************************)
(* containers/graph.py, containers/container.py  loading a chart           *)
(***************************************************************************)
\* a link name of ftl.yaml that names no container of the chart
Missing == "cache"

\* the links sections a chart may have: per container, the names it lists
\* under links.required and under links.optional
LinkSections(required, optional) ==
    [required : SUBSET required, optional : SUBSET optional]

ChartConfigs ==
    {[api |-> a, db |-> d, web |-> [required |-> {"api"}, optional |-> {}]] :
        a \in LinkSections({"db", Missing}, {"db", Missing}),
        d \in LinkSections({"api"}, {})}

\* Container.load lines 106-118: each name under required is entered, then
\* each name under optional, into the same dict
load_links(config) ==
    [l \in config.required \cup config.optional |->
        IF l \in config.optional THEN "optional" ELSE "required"]

\* a Container as loaded from its directory
Loaded(config) ==
    [required |-> config.required, optional |-> config.optional,
     links |-> load_links(config),
     foreground |-> FALSE, abstract |-> FALSE, image_tag |-> "local",
     environment |-> <<>>, ports |-> <<>>, mem_limit |-> "0", devmodes |-> {},
     options |-> <<>>]

\* the names add_containers passes to set_dependencies (lines 109-114)
RequiredLinks(container) ==
    {l \in DOMAIN container.links : container.links[l] = "required"}

\* a chart directory read, the graph not yet built
GraphInit ==
    \E cfg \in ChartConfigs :
        /\ containers = [c \in Names |-> Loaded(cfg[c])]
        /\ dependencies = [c \in Names |-> {}]
        /\ images = [c \in Names |-> CurrentImage]
        /\ registry = None
        /\ client = <<>>
        /\ App = NoApp
        /\ host = [rn \in RNames |-> Absent]
        /\ formation = <<>>
        /\ stop = TRUE
        /\ DriverAt("idle")
        /\ WorkersIdle
        /\ lastOp = NoOp

\* ContainerGraph.add_containers lines 101-118; a required link that names no
\* container is the KeyError turned into BadConfigError
LoadGraph ==
    /\ pc = "idle"
    /\ IF \E c \in Names : ~(RequiredLinks(containers[c]) \subseteq Names)
       THEN /\ pc' = "raised"
            /\ error' = [kind |-> "BadConfigError", names |-> {}]
            /\ dependencies' = dependencies
       ELSE /\ pc' = "loaded"
            /\ error' = error
            /\ dependencies' = [c \in Names |-> RequiredLinks(containers[c])]
    /\ lastOp' = [op |-> "load", arg |-> None, ign |-> FALSE, ok |-> pc' = "loaded",
                  pre |-> <<>>]
    /\ UNCHANGED <<containers, hostVars, formation, stop, phase, to_stop, to_start,
                   current_formation, queued, processing, done, idle_iterations,
                   workerVars>>

(***************************************************************************)
(* containers/profile.py, cli/__init__.py  the profile chain               *)
(***************************************************************************)
\* longest chain of profiles: the user profile and its ancestors
MaxChain == 3

\* what a profile file may say about the container api
OptionKinds ==
    {"default_boot", "devmodes", "image_tag", "environment", "ports", "mem_limit",
     "links_required", "links_optional"}

\* the contents of a profile file: it does not mention api, or it has an entry
\* for api that sets nothing, one kind of option, or all of them at once
FileChoices ==
    {[mentions |-> FALSE, sets |-> {}], [mentions |-> TRUE, sets |-> {}],
     [mentions |-> TRUE, sets |-> OptionKinds \ {"links_optional"}]}
        \cup {[mentions |-> TRUE, sets |-> {o}] : o \in OptionKinds}

RECURSIVE ChainsUpTo(_)
ChainsUpTo(n) ==
    IF n = 0 THEN {<<>>}
    ELSE LET shorter == ChainsUpTo(n - 1)
         IN shorter \cup {Append(ch, f) : ch \in {x \in shorter : Len(x) = n - 1},
                                          f \in FileChoices}

\* chains in the order they are applied: oldest ancestor first, user last
Chains == ChainsUpTo(MaxChain) \ {<<>>}

\* the value the k-th applied profile writes for an option
ValueOf(k) == <<"v1", "v2", "v3", "v4", "v5">>[k]

BootOf(k) == IF k % 2 = 1 THEN "True" ELSE "False"

\* Profile.load lines 52-75: the override record kept for the container; the
\* image_tag key of the file is not copied into it
load_profile(k, file) ==
    [links |-> [required |-> IF "links_required" \in file.sets THEN {"db"} ELSE {},
                optional |-> IF "links_optional" \in file.sets THEN {"db"} ELSE {}],
     devmodes |-> IF "devmodes" \in file.sets THEN {ValueOf(k)} ELSE {},
     ports |-> IF "ports" \in file.sets THEN [a \in {"8080"} |-> ValueOf(k)] ELSE <<>>,
     environment |-> IF "environment" \in file.sets THEN [a \in {"MODE"} |-> ValueOf(k)]
                     ELSE <<>>,
     default_boot |-> IF "default_boot" \in file.sets THEN BootOf(k) ELSE None,
     has_mem_limit |-> "mem_limit" \in file.sets,
     mem_limit |-> ValueOf(k),
     has_image_tag |-> FALSE,
     image_tag |-> ValueOf(k)]

\* dict.update / item assignment: the entries of new replace those of old
Merge(old, new) ==
    [a \in DOMAIN old \cup DOMAIN new |-> IF a \in DOMAIN new THEN new[a] ELSE old[a]]

\* Profile.calculate_links lines 164-193; ok = FALSE is BadConfigError
calculate_links(container, deps, details) ==
    IF details.links.optional \cup details.links.required \subseteq DOMAIN container.links
    THEN [ok |-> TRUE,
          links |-> {l \in DOMAIN container.links :
                        \/ l \in deps /\ l \notin details.links.optional
                        \/ l \in details.links.required}]
    ELSE [ok |-> FALSE, links |-> {}]

\* Profile.apply lines 130-142: the options set on the graph
apply_options(container, details, compat) ==
    Merge(Merge(container.options,
                IF compat THEN [a \in {"in_profile"} |-> "True"] ELSE <<>>),
          Merge(IF details.default_boot # None
                THEN [a \in {"default_boot"} |-> details.default_boot]
                ELSE IF ~container.foreground /\ compat
                     THEN [a \in {"default_boot"} |-> "True"] ELSE <<>>,
                [a \in {"devmodes"} |-> details.devmodes]))

\* Profile.apply lines 113-157 for the entry of one container
apply(container, deps, details, compat) ==
    LET wants == details.links.required # {} \/ details.links.optional # {}
        linked == IF wants THEN calculate_links(container, deps, details)
                  ELSE [ok |-> TRUE, links |-> deps]
    IN [ok |-> linked.ok,
        dependencies |-> linked.links,
        container |->
            IF ~linked.ok THEN container
            ELSE [container EXCEPT
                     !.options = apply_options(container, details, compat),
                     !.ports = Merge(@, details.ports),
                     !.image_tag = IF details.has_image_tag THEN details.image_tag ELSE @,
                     !.environment = Merge(@, details.environment),
                     !.mem_limit = IF details.has_mem_limit THEN details.mem_limit ELSE @]]

\* load_profiles lines 161-162: the profiles applied one after the other, the
\* user profile (the last of the chain) without default_boot compatibility
RECURSIVE ApplyChain(_, _, _, _)
ApplyChain(chain, k, container, deps) ==
    IF k > Len(chain) THEN [ok |-> TRUE, container |-> container, dependencies |-> deps]
    ELSE IF ~chain[k].mentions THEN ApplyChain(chain, k + 1, container, deps)
    ELSE LET r == apply(container, deps, load_profile(k, chain[k]), k < Len(chain))
         IN IF ~r.ok THEN [ok |-> FALSE, container |-> r.container, dependencies |-> deps]
            ELSE ApplyChain(chain, k + 1, r.container, r.dependencies)

\* App.load_profiles (lines 130-162) on a loaded graph
LoadProfiles(chain) ==
    /\ pc = "loaded"
    /\ lastOp.op = "load"
    /\ LET r == ApplyChain(chain, 1, containers["api"], dependencies["api"])
       IN /\ containers' = [containers EXCEPT !["api"] = r.container]
          /\ dependencies' = [dependencies EXCEPT !["api"] = r.dependencies]
          /\ pc' = IF r.ok THEN "loaded" ELSE "raised"
          /\ error' = IF r.ok THEN error ELSE [kind |-> "BadConfigError", names |-> {}]
          /\ lastOp' = [op |-> "load_profiles", arg |-> chain, ign |-> FALSE, ok |-> r.ok,
                        pre |-> containers["api"]]
    /\ UNCHANGED <<hostVars, formation, stop, phase, to_stop, to_start,
                   current_formation, queued, processing, done, idle_iterations,
                   workerVars>>

GraphNext ==
    \/ LoadGraph
    \/ \E chain \in Chains : LoadProfiles(chain)

SpecGraph == GraphInit /\ [][GraphNext]_vars

GraphLoaded == lastOp.op = "load" /\ pc = "loaded"

\* C13: after graph load every link name a container lists as required names
\* a container and is among the container's dependencies, also when the name
\* is listed as optional too; a required link naming no container fails the
\* load with a config error; links listed only as optional create no edge.
C13_RequiredLinksAreEdges ==
    /\ GraphLoaded =>
          \A c \in Names :
              /\ containers[c].required \subseteq Names
              /\ containers[c].required \subseteq dependencies[c]
              /\ dependencies[c] \cap (containers[c].optional \ containers[c].required) = {}
    /\ (lastOp.op = "load" /\ \E c \in Names : Missing \in containers[c].required)
          => pc = "raised" /\ error.kind = "BadConfigError"

RECURSIVE DependenciesClosure(_)
DependenciesClosure(S) ==
    LET more == S \cup UNION {dependencies[c] : c \in S}
    IN IF more = S THEN S ELSE DependenciesClosure(more)

\* no container reaches itself along runtime dependencies
Acyclic == \A c \in Names : c \notin DependenciesClosure(dependencies[c])

\* C14: in every graph state reached by load and profile applications the
\* runtime-dependency relation is acyclic.
C14_NoCycleAccepted == pc = "loaded" => Acyclic

ProfilesLoaded == lastOp.op = "load_profiles" /\ lastOp.ok

\* the profiles of the applied chain that set the option
Setters(option) ==
    {k \in 1..Len(lastOp.arg) : lastOp.arg[k].mentions /\ option \in lastOp.arg[k].sets}

LinkSetters == Setters("links_required") \cup Setters("links_optional")

Latest(S) == CHOOSE k \in S : \A j \in S : j <= k

\* the option has the value written by the latest profile of S
InForce(option, S) ==
    LET k == Latest(S)
        c == containers["api"]
    IN CASE option = "default_boot" ->
                "default_boot" \in DOMAIN c.options /\ c.options["default_boot"] = BootOf(k)
         [] option = "devmodes" ->
                "devmodes" \in DOMAIN c.options /\ c.options["devmodes"] = {ValueOf(k)}
         [] option = "image_tag" -> c.image_tag = ValueOf(k)
         [] option = "environment" ->
                "MODE" \in DOMAIN c.environment /\ c.environment["MODE"] = ValueOf(k)
         [] option = "ports" -> "8080" \in DOMAIN c.ports /\ c.ports["8080"] = ValueOf(k)
         [] option = "mem_limit" -> c.mem_limit = ValueOf(k)
         [] option = "links" ->
                ("db" \in dependencies["api"]) = ("links_required" \in lastOp.arg[k].sets)

SetTwice(option) ==
    Cardinality(IF option = "links" THEN LinkSetters ELSE Setters(option)) >= 2

LaterWins(option) ==
    ProfilesLoaded /\ SetTwice(option)
        => InForce(option, IF option = "links" THEN LinkSetters ELSE Setters(option))

SimpleOptions == {"default_boot", "devmodes", "image_tag", "environment", "ports", "mem_limit"}

\* C19: after load_profiles, every container option set by more than one
\* profile of the chain (default_boot, devmodes, image_tag, an environment key,
\* a port, mem_limit, the link overrides) has the value of the profile that
\* was applied last among them.
C19_LaterProfileWins == \A option \in SimpleOptions \cup {"links"} : LaterWins(option)

(***************************************************************************)
(* utils/sorting.py  dependency_sort on arbitrary graphs                   *)
(***************************************************************************)
\* a dependencies callable over the nodes api, db, web: any graph, with
\* self-loops and cycles
SortInit ==
    /\ dependencies \in [Names -> SUBSET Names]
    /\ containers = [c \in Names |-> Loaded([required |-> {}, optional |-> {}])]
    /\ images = [c \in Names |-> CurrentImage]
    /\ registry = None
    /\ client = <<>>
    /\ App = NoApp
    /\ host = [rn \in RNames |-> Absent]
    /\ formation = <<>>
    /\ stop = TRUE
    /\ DriverAt("idle")
    /\ WorkersIdle
    /\ lastOp = NoOp

\* dependency_sort(initial, dependencies) called once
Sort(initial) ==
    /\ lastOp.op = "none"
    /\ LET sorted == dependency_sort(initial, dependencies, NameRank)
       IN lastOp' = [op |-> "dependency_sort", arg |-> initial, ign |-> FALSE,
                     ok |-> sorted.ok, pre |-> sorted.result]
    /\ UNCHANGED <<graphVars, hostVars, formation, driverVars, workerVars>>

SortNext == \E initial \in SUBSET Names : Sort(initial)

SpecSort == SortInit /\ [][SortNext]_vars

\* the nodes reachable from S along dependencies, S included
Reachable(S) == DependenciesClosure(S)

\* some node of S reaches itself
HasCycle(S) == \E n \in S : n \in DependenciesClosure(dependencies[n])

Sorted == lastOp.op = "dependency_sort"

\* C15: when the graph reachable from the initial nodes is acyclic,
\* dependency_sort returns every reachable node exactly once, each after all
\* of its dependencies; it raises the circular-dependency error exactly when
\* the reachable graph has a cycle.
C15_TopologicalOrCircular ==
    Sorted =>
        LET R == Reachable(lastOp.arg)
            result == lastOp.pre
        IN /\ lastOp.ok = ~HasCycle(R)
           /\ lastOp.ok =>
                 /\ Len(result) = Cardinality(R)
                 /\ SeqRange(result) = R
                 /\ \A i \in 1..Len(result) :
                        dependencies[result[i]] \subseteq {result[j] : j \in 1..(i - 1)}

\* a chain api -> db -> web sorted from api: the result is the reverse of the
\* name order
C15_Reached ==
    /\ Sorted /\ lastOp.ok
    /\ lastOp.arg = {"api"}
    /\ dependencies = [c \in Names |-> CASE c = "api" -> {"db"} [] c = "db" -> {"web"}
                                          [] OTHER -> {}]
    /\ lastOp.pre = <<"web", "db", "api">>

(***************************************************************************)
(* docker/images.py  ImageRepository                                       *)
(***************************************************************************)
ImageName == "app"

\* registry.url(host) of a logged-in handler
RegistryUrl == "registry/"

\* line 132: f'{registry_url}{image_name}'
RemoteName == "registry/app"

PullTags == {"local", "latest", "v2"}

StoreTags == {"latest", "v2"}

\* the references the engine can hold an image under
Refs == {ImageName, RemoteName} \X StoreTags

\* the digest of the image the registry serves
RemoteDigest == "d3"

\* host.client.pull: a stream, NotFound, an APIError about credentials, or
\* another APIError
PullOutcomes == {"stream", "NotFound", "credentials", "APIError"}

\* line 172: tries > 2, one retry more
RetryLimit_high == 2 + 1

\* line 172: tries > 2
RetryLimit == 2

\* the engine's answers to successive pull requests: as many as _pull can
\* send, and one more
PullAnswers == [1..(RetryLimit + 2) -> PullOutcomes]

\* the application: whether the chart configures a registry, and whether its
\* handler is logged in (url() gives a URL)
Apps ==
    {[registry |-> FALSE, logged_in |-> FALSE], [registry |-> TRUE, logged_in |-> FALSE],
     [registry |-> TRUE, logged_in |-> TRUE]}

Occurrences(log, call) == Cardinality({k \in 1..Len(log) : log[k] = call})

\* image_version lines 223-242; ok = FALSE is ImageNotFoundException
image_version(store, image_tag) ==
    LET tag == IF image_tag = "local" THEN "latest" ELSE image_tag
    IN [ok |-> store[<<ImageName, tag>>] # None, id |-> store[<<ImageName, tag>>]]

\* the handlers get_registry makes, in the order it makes them
Handlers == <<"handler1", "handler2", "handler3", "handler4", "handler5", "handler6">>

\* get_registry lines 60-82: the cached handler, made on first use
get_registry(app, cached, log) ==
    IF ~app.registry THEN [handler |-> None, registry |-> cached, log |-> log]
    ELSE IF cached = None
         THEN [handler |-> Handlers[Occurrences(log, "login") + 1],
               registry |-> Handlers[Occurrences(log, "login") + 1],
               log |-> Append(log, "login")]
         ELSE [handler |-> cached, registry |-> cached, log |-> log]

\* _pull lines 168-203; outcomes[k] is the engine's answer to the k-th request
RECURSIVE _pull(_, _, _, _, _, _)
_pull(app, outcomes, tries, cached, log, no_registry_env) ==
    IF tries > RetryLimit
    THEN [result |-> "ImagePullFailure", registry |-> cached, log |-> log]
    ELSE LET answer == outcomes[tries + 1]
             called == Append(log, "pull")
         IN CASE answer = "stream" ->
                    [result |-> "stream", registry |-> cached, log |-> called]
              [] answer = "NotFound" ->
                    [result |-> IF no_registry_env THEN "ImagePullFailure" ELSE "SystemExit",
                     registry |-> cached, log |-> called]
              [] answer = "credentials" ->
                    LET again == get_registry(app, None, Append(called, "reset"))
                    IN _pull(app, outcomes, tries + 1, again.registry,
                            Append(again.log, "url"), no_registry_env)
              [] answer = "APIError" ->
                    [result |-> "ImagePullFailure", registry |-> cached, log |-> called]

\* _tag_image lines 205-221; raised = None when it returns
_tag_image(store, source_tag, target_tag, fail_silently) ==
    IF store[<<RemoteName, source_tag>>] = None
    THEN [raised |-> IF fail_silently THEN None ELSE "ImagePullFailure", store |-> store]
    ELSE [raised |-> None,
          store |-> [store EXCEPT ![<<ImageName, target_tag>>] = store[<<RemoteName, source_tag>>]]]

Outcome(raised, store, cached, log, pulled) ==
    [raised |-> raised, images |-> store, registry |-> cached, log |-> log, pulled |-> pulled]

\* lines 95-102, 119-126, 140-147: return None or raise ImagePullFailure
SilentlyOrRaise(fail_silently) == IF fail_silently THEN None ELSE "ImagePullFailure"

\* pull_image_version treating "local" like any other tag
pull_image_version_remote(store, cached, app, image_tag, fail_silently, outcomes, stream_error, no_registry_env) ==
    LET got == get_registry(app, cached, <<>>)
        p == _pull(app, outcomes, 0, got.registry, Append(got.log, "url"), no_registry_env)
    IN Outcome(IF p.result = "stream" THEN None ELSE p.result, store, p.registry, p.log,
               p.result = "stream")

\* pull_image_version lines 84-166
pull_image_version(store, cached, app, image_tag, fail_silently, outcomes, stream_error, no_registry_env) ==
    IF image_tag = "local"
    THEN Outcome(SilentlyOrRaise(fail_silently), store, cached, <<>>, FALSE)
    ELSE IF image_tag # "latest" /\ image_version(store, image_tag).ok
    THEN Outcome(None, store, cached, <<"inspect">>, FALSE)
    ELSE
    LET inspected == IF image_tag # "latest" THEN <<"inspect">> ELSE <<>>
        got == get_registry(app, cached, inspected)
        asked == IF got.handler # None THEN Append(got.log, "url") ELSE got.log
        registry_url == IF got.handler # None /\ app.logged_in THEN RegistryUrl ELSE None
    IN IF registry_url = None
       THEN Outcome(SilentlyOrRaise(fail_silently), store, got.registry, asked, FALSE)
       ELSE
       LET p == _pull(app, outcomes, 0, got.registry, asked, no_registry_env)
       IN IF p.result # "stream" THEN Outcome(p.result, store, p.registry, p.log, FALSE)
          ELSE IF stream_error
          THEN Outcome(SilentlyOrRaise(fail_silently), store, p.registry, p.log, FALSE)
          ELSE
          LET pulled == [store EXCEPT ![<<RemoteName, image_tag>>] = RemoteDigest]
              first == _tag_image(pulled, image_tag, image_tag, fail_silently)
              second == _tag_image(first.store, image_tag, "latest", fail_silently)
          IN IF first.raised # None
             THEN Outcome(first.raised, first.store, p.registry, Append(p.log, "tag"), TRUE)
             ELSE Outcome(second.raised, second.store, p.registry,
                          Append(Append(p.log, "tag"), "tag"), TRUE)

\* the local images before the call: app:latest and app:v2 present or not,
\* with the same or different digests; nothing pulled yet
Stores ==
    {[ref \in Refs |-> IF ref = <<ImageName, "latest">> THEN a
                       ELSE IF ref = <<ImageName, "v2">> THEN b ELSE None] :
        a \in {None, "d1"}, b \in {None, "d1", "d2"}}

ImagesInit ==
    /\ images \in Stores
    /\ registry = None
    /\ client = <<>>
    /\ App = NoApp
    /\ containers = [c \in Names |-> Loaded([required |-> {}, optional |-> {}])]
    /\ dependencies = [c \in Names |-> {}]
    /\ host = [rn \in RNames |-> Absent]
    /\ formation = <<>>
    /\ stop = TRUE
    /\ DriverAt("idle")
    /\ WorkersIdle
    /\ lastOp = NoOp

\* one call of host.images.pull_image_version(app, "app", image_tag, task,
\* fail_silently)
PullImageVersion(image_tag, fail_silently, app, outcomes, stream_error, no_registry_env) ==
    /\ lastOp.op = "none"
    /\ LET r == pull_image_version(images, registry, app, image_tag, fail_silently,
                                   outcomes, stream_error, no_registry_env)
       IN /\ images' = r.images
          /\ registry' = r.registry
          /\ client' = r.log
          /\ lastOp' = [op |-> "pull_image_version",
                        arg |-> [image_tag |-> image_tag, app |-> app, outcomes |-> outcomes,
                                 stream_error |-> stream_error],
                        ign |-> fail_silently, ok |-> r.raised = None,
                        pre |-> images, raised |-> r.raised, pulled |-> r.pulled]
    /\ UNCHANGED <<graphVars, host, App, formation, driverVars, workerVars>>

ImagesNext ==
    \E image_tag \in PullTags, fail_silently \in BOOLEAN, app \in Apps,
       outcomes \in PullAnswers, stream_error \in BOOLEAN,
       no_registry_env \in BOOLEAN :
        PullImageVersion(image_tag, fail_silently, app, outcomes, stream_error,
                         no_registry_env)

SpecImages == ImagesInit /\ [][ImagesNext]_vars

Pulled == lastOp.op = "pull_image_version"

\* the number of pull requests sent to the engine
Pulls == Occurrences(client, "pull")

\* the position in the call log of the i-th pull request
PullAt(i) ==
    CHOOSE k \in 1..Len(client) :
        client[k] = "pull" /\ Cardinality({j \in 1..k : client[j] = "pull"}) = i

\* after the i-th pull request and before the next one the cached handler was
\* reset and a new one obtained
Relogged(i) ==
    \E r, l \in 1..Len(client) :
        /\ PullAt(i) < r /\ r < l
        /\ i < Pulls => l < PullAt(i + 1)
        /\ client[r] = "reset" /\ client[l] = "login"

\* C16: _pull sends at most 3 pull requests; after each credential-related API
\* error the cached registry handler is reset and obtained again before the
\* next attempt; another API error fails at once; after the third credential
\* failure ImagePullFailure is raised.
C16_PullRetries ==
    Pulled =>
        /\ Pulls <= 3
        /\ \A i \in 1..Pulls :
              /\ lastOp.arg.outcomes[i] = "credentials" => Relogged(i)
              /\ lastOp.arg.outcomes[i] = "APIError" =>
                     i = Pulls /\ lastOp.raised = "ImagePullFailure"
        /\ (Pulls = 3 /\ \A i \in 1..3 : lastOp.arg.outcomes[i] = "credentials")
              => lastOp.raised = "ImagePullFailure"

\* three credential failures in a row
C16_Reached ==
    /\ Pulled /\ Pulls = 3
    /\ \A i \in 1..3 : lastOp.arg.outcomes[i] = "credentials"
    /\ lastOp.raised = "ImagePullFailure"
    /\ registry = Handlers[4]

PulledLocal == Pulled /\ lastOp.arg.image_tag = "local"

\* no request reached the engine or the registry and no tag changed
Untouched == client = <<>> /\ images = lastOp.pre /\ registry = None

\* C17 as stated: pull_image_version with the tag "local" contacts no
\* registry, changes no tag and raises no error, whatever fail_silently is.
C17_LocalIsNoOp == PulledLocal => Untouched /\ lastOp.ok

\* C17: pull_image_version with the tag "local" contacts no registry and
\* changes no tag; it returns when fail_silently is set and raises
\* ImagePullFailure when it is not.
C17_LocalNeverPulls ==
    PulledLocal =>
        /\ Untouched
        /\ lastOp.raised = IF lastOp.ign THEN None ELSE "ImagePullFailure"

\* "local" pulled without fail_silently while app:latest exists
C17_Reached ==
    /\ PulledLocal /\ ~lastOp.ign
    /\ lastOp.raised = "ImagePullFailure"
    /\ image_version(images, "local").ok

\* C18: whenever pull_image_version returns without error for a tag other
\* than "local", the path that skips the registry included, the image's
\* version under that tag and under "latest" are both the pulled digest.
C18_PulledIsLatest ==
    (Pulled /\ lastOp.ok /\ lastOp.arg.image_tag # "local") =>
        /\ image_version(images, lastOp.arg.image_tag).ok
        /\ image_version(images, "latest").ok
        /\ image_version(images, lastOp.arg.image_tag).id = image_version(images, "latest").id
        /\ lastOp.pulled => image_version(images, "latest").id = RemoteDigest

(***************************************************************************)
(* cli/__init__.py  App.load_plugins                                       *)
(***************************************************************************)
\* the plugin classes the entry points give
Plugins == {"BootPlugin", "RunPlugin", "TailPlugin"}

\* PluginMetaclass._orderable_id (plugins/base.py lines 9-21): the class name
\* comes first
PluginRank == [p \in Plugins |-> CASE p = "BootPlugin" -> 1 [] p = "RunPlugin" -> 2
                                   [] p = "TailPlugin" -> 3]

\* the names a plugin can list under provides and requires
Capabilities == {"start", "tail"}

\* the provides and requires attributes of the discovered classes
PluginLists == [Plugins -> SUBSET Capabilities]

Providers(provides, name) == {p \in Plugins : name \in provides[p]}

\* lines 79-86: provided[p] = plugin, for names with one provider
ProvidedBy(provides) ==
    [name \in {n \in Capabilities : Providers(provides, n) # {}} |->
        CHOOSE p \in Plugins : name \in provides[p]]

\* lines 76-100 without the dependency sort: the plugins in the order of
\* their names
load_plugins_unsorted(provides, requires) ==
    IF \E name \in Capabilities : Cardinality(Providers(provides, name)) > 1
    THEN [raised |-> "SystemExit", plugins |-> <<>>]
    ELSE IF \E p \in Plugins : \E r \in requires[p] : Providers(provides, r) = {}
    THEN [raised |-> "SystemExit", plugins |-> <<>>]
    ELSE [raised |-> None, plugins |-> SortedSeq(Plugins, PluginRank)]

\* load_plugins lines 76-100: the plugins instantiated and loaded, in order
load_plugins(provides, requires) ==
    IF \E name \in Capabilities : Cardinality(Providers(provides, name)) > 1
    THEN [raised |-> "SystemExit", plugins |-> <<>>]
    ELSE IF \E p \in Plugins : \E r \in requires[p] : Providers(provides, r) = {}
    THEN [raised |-> "SystemExit", plugins |-> <<>>]
    ELSE LET provided == ProvidedBy(provides)
             sorted == dependency_sort(Plugins,
                           [p \in Plugins |-> {provided[r] : r \in requires[p]}], PluginRank)
         IN IF sorted.ok THEN [raised |-> None, plugins |-> sorted.result]
            ELSE [raised |-> "ValueError", plugins |-> <<>>]

PluginsInit ==
    /\ App = NoApp
    /\ images = [c \in Names |-> CurrentImage]
    /\ registry = None
    /\ client = <<>>
    /\ containers = [c \in Names |-> Loaded([required |-> {}, optional |-> {}])]
    /\ dependencies = [c \in Names |-> {}]
    /\ host = [rn \in RNames |-> Absent]
    /\ formation = <<>>
    /\ stop = TRUE
    /\ DriverAt("idle")
    /\ WorkersIdle
    /\ lastOp = NoOp

\* App.load_plugins() over the discovered classes
LoadPlugins(provides, requires) ==
    /\ lastOp.op = "none"
    /\ LET r == load_plugins(provides, requires)
       IN /\ App' = [App EXCEPT !.plugins = r.plugins]
          /\ lastOp' = [op |-> "load_plugins",
                        arg |-> [provides |-> provides, requires |-> requires],
                        ign |-> FALSE, ok |-> r.raised = None, pre |-> App,
                        raised |-> r.raised]
    /\ UNCHANGED <<graphVars, images, host, registry, client, formation, driverVars,
                   workerVars>>

PluginsNext ==
    \E provides \in PluginLists, requires \in PluginLists : LoadPlugins(provides, requires)

SpecPlugins == PluginsInit /\ [][PluginsNext]_vars

PluginsLoaded == lastOp.op = "load_plugins"

ProvidedTwice ==
    \E name \in Capabilities : Cardinality(Providers(lastOp.arg.provides, name)) > 1

RequiredByNone ==
    \E p \in Plugins : \E r \in lastOp.arg.requires[p] :
        Providers(lastOp.arg.provides, r) = {}

\* q provides a name p requires
Needs(p, q) == \E r \in lastOp.arg.requires[p] : r \in lastOp.arg.provides[q]

RECURSIVE NeedsClosure(_)
NeedsClosure(S) ==
    LET more == S \cup {q \in Plugins : \E p \in S : Needs(p, q)}
    IN IF more = S THEN S ELSE NeedsClosure(more)

\* some plugin needs itself, directly or through others
RequiresCycle == \E p \in Plugins : p \in NeedsClosure({q \in Plugins : Needs(p, q)})

\* every plugin instantiated and loaded exactly once, after its providers
AllLoadedInOrder ==
    /\ lastOp.raised = None
    /\ Len(App.plugins) = Cardinality(Plugins)
    /\ SeqRange(App.plugins) = Plugins
    /\ \A i, j \in 1..Len(App.plugins) : Needs(App.plugins[i], App.plugins[j]) => j < i

Aborted == lastOp.raised = "SystemExit" /\ App.plugins = <<>>

\* C20 as stated: load_plugins aborts when a name is provided by two plugins
\* or a required name by none; otherwise every discovered plugin is
\* instantiated and loaded exactly once, after every plugin that provides a
\* name it requires.
C20_AbortOrLoadAll ==
    PluginsLoaded => IF ProvidedTwice \/ RequiredByNone THEN Aborted ELSE AllLoadedInOrder

\* C20: as above when the requirements among the plugins are acyclic; when
\* they form a cycle dependency_sort raises ValueError and no plugin is loaded.
C20_AbortOrLoadAcyclic ==
    PluginsLoaded =>
        IF ProvidedTwice \/ RequiredByNone THEN Aborted
        ELSE IF RequiresCycle THEN lastOp.raised = "ValueError" /\ App.plugins = <<>>
        ELSE AllLoadedInOrder

\* BootPlugin needs RunPlugin, which needs TailPlugin: loaded in the reverse
\* of the name order
C20_Reached ==
    /\ PluginsLoaded /\ lastOp.ok
    /\ App.plugins = <<"TailPlugin", "RunPlugin", "BootPlugin">>

(***************************************************************************)
(* Properties of the interactive (foreground) start                        *)
(***************************************************************************)
\* the start worker of the instance raised DockerInteractiveException
Interactive(rn) == wexc[Mine(rn)] = "Interactive"

\* the handler of the instance has run: only the handler removes the
\* container the worker created
Handled(rn) == Interactive(rn) /\ host[rn].state = "absent"

Booter == Mine(TheInstance)

\* what a file inside the container holds: nothing (no such file), no bytes
\* or only white space, a JSON line with a message, other text
FileContents == {"missing", "empty", "json", "text"}

\* the waits a container may declare, in the order it declares them
WaitOrder == <<"tcp", "file">>

Waits == {"tcp", "file"}

WaitRank == [w \in Waits |-> CHOOSE k \in 1..Len(WaitOrder) : WaitOrder[k] = w]

\* Seedship._read_file lines 22-33: the stripped contents, or the default
\* (None) when the file or the container is missing or the contents are empty
_read_file(contents) == IF contents \in {"missing", "empty"} THEN None ELSE contents

\* Seedship.status lines 35-65 on the container as it is: (finished, message)
status(box, timed_out) ==
    IF box.state = "absent" THEN [finished |-> "False", message |-> "Container does not exist"]
    ELSE IF box.state # "running"
    THEN [finished |-> "False", message |-> "Container died during boot"]
    ELSE LET container_status == _read_file(box.boot_status)
         IN IF container_status = None /\ timed_out
            THEN [finished |-> "True", message |-> "Non-seedship boot complete"]
            ELSE IF _read_file(box.boot_complete) # None
            THEN [finished |-> "True", message |-> "Seedship boot complete"]
            ELSE IF container_status # None
            THEN [finished |-> None, message |-> container_status]
            ELSE [finished |-> None, message |-> None]

\* a worker that goes on after finished=False
after_status_lenient(finished) == IF finished = None THEN "probe" ELSE "booted"

\* runner.py lines 304-314: what the loop does with finished
after_status(finished) ==
    CASE finished = None -> "probe" [] finished = "True" -> "booted" [] finished = "False" -> "raised"

\* a pass that keeps the waits that reported ready
still_waiting_all(wait_instances, ready) == wait_instances

\* waits.py lines 62-66: the waits left after a pass
still_waiting(wait_instances, ready) == wait_instances \ ready

\* waits.py lines 62-69: the waits a pass polls, in order, up to and
\* including the first whose ready() raises
PolledInPass(wait_instances, broken) ==
    {w \in wait_instances :
        \A v \in wait_instances \cap broken : WaitRank[w] <= WaitRank[v]}

\* the container db with its declared waits
BootContainer(waits) ==
    [foreground |-> FALSE, abstract |-> FALSE, environment |-> {}, mem_limit |-> 0,
     ports |-> {}, devmodes |-> {}, waits |-> waits]

\* the started container: its state, the two seedship files, and the waits
\* whose condition holds and whose ready() raises
Box(state, boot_status, boot_complete, ready, broken) ==
    [state |-> state, boot_status |-> boot_status, boot_complete |-> boot_complete,
     ready |-> ready, broken |-> broken]

\* the App with the WaitsPlugin loaded, and what the worker has noted so far
BootApp ==
    [plugins |-> <<"WaitsPlugin">>, hooks |-> <<>>, first_try |-> None, timed_out |-> FALSE,
     status_line |-> None, wait_instances |-> {}, polls |-> [w \in Waits |-> "never"],
     observed |-> None, message |-> None]

\* the state right after client.start (line 300)
BootInit ==
    \E waits \in SUBSET Waits, boot_status \in FileContents,
       boot_complete \in FileContents \ {"json"} :
        /\ containers = [c \in Names |-> BootContainer(IF c = "db" THEN waits ELSE {})]
        /\ dependencies = [c \in Names |-> {}]
        /\ images = [c \in Names |-> CurrentImage]
        /\ registry = None
        /\ client = <<>>
        /\ App = BootApp
        /\ host = [rn \in {TheInstance} |-> Box("running", boot_status, boot_complete, {}, {})]
        /\ formation = <<>>
        /\ stop = TRUE
        /\ DriverAt("collect")
        /\ wpc = [t \in Tids |-> IF t = Booter THEN "probe" ELSE "none"]
        /\ wkind = [t \in Tids |-> IF t = Booter THEN "start" ELSE "none"]
        /\ wexc = [t \in Tids |-> None]
        /\ spins = [t \in Tids |-> 0]
        /\ changing_containers = {TheInstance}
        /\ lastOp = NoOp

BootFrame ==
    UNCHANGED <<graphVars, images, registry, client, formation, driverVars, wkind, spins>>

\* lines 334-343: ContainerBootFailure becomes DockerRuntimeError BOOT_FAIL
BootFailure(message) ==
    /\ Raise(Booter, "BOOT_FAIL")
    /\ ReleaseOnRaise(Booter)
    /\ App' = [App EXCEPT !.message = message]

\* runner.py lines 302-314: one iteration of the seedship loop
SeedshipPoll ==
    /\ wpc[Booter] = "probe"
    /\ LET s == status(host[TheInstance], App.timed_out)
           first == IF host[TheInstance].state = "running" THEN "set" ELSE App.first_try
       IN /\ lastOp' = [op |-> "status", arg |-> App.timed_out, ign |-> FALSE,
                        ok |-> s.finished, pre |-> host[TheInstance]]
          /\ CASE after_status(s.finished) = "probe" ->
                    /\ App' = [App EXCEPT !.first_try = first,
                                          !.status_line = IF s.message # None THEN s.message
                                                          ELSE @]
                    /\ wpc' = [wpc EXCEPT ![Booter] = "sleeping"]
                    /\ UNCHANGED <<wexc, changing_containers>>
               [] after_status(s.finished) = "booted" ->
                    /\ App' = [App EXCEPT !.first_try = first]
                    /\ wpc' = [wpc EXCEPT ![Booter] = "booted"]
                    /\ UNCHANGED <<wexc, changing_containers>>
               [] after_status(s.finished) = "raised" ->
                    /\ Raise(Booter, "BOOT_FAIL")
                    /\ ReleaseOnRaise(Booter)
                    /\ App' = [App EXCEPT !.first_try = first,
                                          !.message = "Failed during Seedship"]
    /\ host' = host
    /\ BootFrame

\* runner.py line 314: time.sleep(0.5), then the next iteration
ProbeSleep ==
    /\ wpc[Booter] = "sleeping"
    /\ wpc' = [wpc EXCEPT ![Booter] = "probe"]
    /\ UNCHANGED <<host, App, wexc, changing_containers, lastOp>>
    /\ BootFrame

\* runner.py lines 315-327 and waits.py lines 31-49: introspect the started
\* container, run the POST_RUN_CONTAINER hooks, build the wait instances
PostRunContainer ==
    /\ wpc[Booter] = "booted"
    /\ IF host[TheInstance].state # "running"
       THEN BootFailure("Failed after Seedship")
       ELSE /\ App' = [App EXCEPT !.hooks = Append(@, "POST_RUN_CONTAINER"),
                                  !.wait_instances = containers["db"].waits]
            /\ wpc' = [wpc EXCEPT ![Booter] = "waits"]
            /\ UNCHANGED <<wexc, changing_containers>>
    /\ UNCHANGED <<host, lastOp>>
    /\ BootFrame

Polled(before, ready) ==
    IF before \in {"ready", "again"} THEN "again"
    ELSE IF ready THEN "ready" ELSE "pending"

\* waits.py lines 52-70: one iteration of the loop over the pending waits
WaitsPoll ==
    /\ wpc[Booter] = "waits"
    /\ App.wait_instances # {}
    /\ LET box == host[TheInstance]
           polled == PolledInPass(App.wait_instances, box.broken)
           polls == [w \in Waits |->
                        IF w \in polled \ box.broken THEN Polled(App.polls[w], w \in box.ready)
                        ELSE App.polls[w]]
       IN CASE box.state = "absent" ->
                  /\ Raise(Booter, "NotFound")
                  /\ ReleaseOnRaise(Booter)
                  /\ App' = [App EXCEPT !.observed = "gone"]
            [] box.state = "exited" ->
                  /\ Raise(Booter, "BOOT_FAIL")
                  /\ ReleaseOnRaise(Booter)
                  /\ App' = [App EXCEPT !.observed = "dead", !.message = "Failed during waits"]
            [] box.state = "running" /\ App.wait_instances \cap box.broken # {} ->
                  /\ Raise(Booter, "DockerRuntimeError")
                  /\ ReleaseOnRaise(Booter)
                  /\ App' = [App EXCEPT !.observed = "running", !.polls = polls,
                                        !.wait_instances = still_waiting(@, box.ready \cap polled)]
            [] OTHER ->
                  /\ App' = [App EXCEPT !.observed = "running", !.polls = polls,
                                        !.wait_instances = still_waiting(@, box.ready)]
                  /\ UNCHANGED <<wpc, wexc, changing_containers>>
    /\ UNCHANGED <<host, lastOp>>
    /\ BootFrame

\* runner.py lines 328-344: the waits are over, POST_RUN_CONTAINER_FULLY_STARTED
\* runs, the task finishes and the lock is released
FullyStarted ==
    /\ wpc[Booter] = "waits"
    /\ App.wait_instances = {}
    /\ App' = [App EXCEPT !.hooks = Append(@, "POST_RUN_CONTAINER_FULLY_STARTED")]
    /\ wpc' = [wpc EXCEPT ![Booter] = "done"]
    /\ Release(Booter)
    /\ UNCHANGED <<host, wexc, lastOp>>
    /\ BootFrame

Booting == is_alive(Booter)

\* the environment: the container exits or is removed
ContainerEnds(state) ==
    /\ Booting
    /\ host[TheInstance].state = "running" \/ state = "absent"
    /\ host[TheInstance].state # state
    /\ host' = [host EXCEPT ![TheInstance].state = state]
    /\ UNCHANGED <<App, workerVars, lastOp>>
    /\ BootFrame

\* the environment: the container's boot script writes a seedship file (only
\* the seedship loop reads them)
ContainerWrites(boot_status, boot_complete) ==
    /\ wpc[Booter] \in {"probe", "sleeping"}
    /\ host[TheInstance].state = "running"
    /\ host' = [host EXCEPT ![TheInstance].boot_status = boot_status,
                            ![TheInstance].boot_complete = boot_complete]
    /\ host' # host
    /\ UNCHANGED <<App, workerVars, lastOp>>
    /\ BootFrame

\* the environment: NO_SEEDSHIP_TIMEOUT seconds have passed since the first try
TimeoutPasses ==
    /\ Booting
    /\ App.first_try # None /\ ~App.timed_out
    /\ App' = [App EXCEPT !.timed_out = TRUE]
    /\ UNCHANGED <<host, workerVars, lastOp>>
    /\ BootFrame

\* the environment: the condition of a wait starts to hold, or its ready()
\* starts to raise
WaitTurns(w, raises) ==
    /\ Booting
    /\ host[TheInstance].state = "running"
    /\ w \notin host[TheInstance].ready \cup host[TheInstance].broken
    /\ host' = IF raises THEN [host EXCEPT ![TheInstance].broken = @ \cup {w}]
               ELSE [host EXCEPT ![TheInstance].ready = @ \cup {w}]
    /\ UNCHANGED <<App, workerVars, lastOp>>
    /\ BootFrame

BootNext ==
    \/ SeedshipPoll
    \/ ProbeSleep
    \/ PostRunContainer
    \/ WaitsPoll
    \/ FullyStarted
    \/ \E state \in {"exited", "absent"} : ContainerEnds(state)
    \/ \E boot_status \in FileContents, boot_complete \in FileContents \ {"json"} :
          ContainerWrites(boot_status, boot_complete)
    \/ TimeoutPasses
    \/ \E w \in Waits, raises \in BOOLEAN : WaitTurns(w, raises)

SpecBoot == BootInit /\ [][BootNext]_vars

\* the steps of the start worker's thread
BootWorker == SeedshipPoll \/ ProbeSleep \/ PostRunContainer \/ WaitsPoll \/ FullyStarted

\* the worker thread keeps being scheduled and time passes; nothing is
\* assumed about what the container does
SpecBootFair ==
    SpecBoot /\ WF_<<wpc, wexc, App>>(BootWorker) /\ WF_<<wpc, wexc, App>>(TimeoutPasses)

Probed == lastOp.op = "status"

\* C22: for a running container, whenever /helios/boot_complete is present,
\* also when it is empty, the boot probe reports finished=True.
C22_SentinelFinishes ==
    (Probed /\ lastOp.pre.state = "running" /\ lastOp.pre.boot_complete # "missing")
        => lastOp.ok = "True"

Fired(hook) == \E k \in 1..Len(App.hooks) : App.hooks[k] = hook

C29_WaitsBeforeFullyStarted ==
    /\ Fired("POST_RUN_CONTAINER_FULLY_STARTED")
          => \A w \in containers["db"].waits : App.polls[w] = "ready"
    /\ \A w \in Waits : App.polls[w] # "again"
    /\ App.observed = "dead"
          => /\ wexc[Booter] = "BOOT_FAIL" /\ App.message = "Failed during waits"
             /\ ~Fired("POST_RUN_CONTAINER_FULLY_STARTED")

\* two waits that turned ready in different passes, then the hook
C29_Reached ==
    /\ Fired("POST_RUN_CONTAINER_FULLY_STARTED")
    /\ containers["db"].waits = Waits
    /\ \A w \in Waits : App.polls[w] = "ready"

\* ---------------------------------------------------------------------------
\* Building one image: docker/build.py, Builder.build
\* ---------------------------------------------------------------------------

\* container.image_tag of the container that is built
BuildTags == {"latest", "1.0"}

\* what one chunk of the build stream decodes to: a "stream" line, a "stream"
\* line that starts with "Step ", an "error" object, or text json.loads
\* rejects (lines 109-111: skipped)
DataKinds == {"stream", "step", "error", "undecodable"}

BuildStreams == UNION {[1..n -> DataKinds] : n \in 0..3}

ReportedError(result) == \E k \in 1..Len(result) : result[k] = "error"

\* lines 112-121: what one decoded object does to (build_successful, progress)
read_data(data, build_successful, progress) ==
    [build_successful |-> IF data = "error" THEN FALSE ELSE build_successful,
     progress |-> IF data = "step" THEN progress + 1 ELSE progress]

\* lines 126-130: FailedCommandException is raised unless the build
\* succeeded and the tag is not "latest"
build_failed(build_successful, image_tag) ==
    ~(build_successful /\ image_tag # "latest")

BuildApp(image_tag, result) ==
    [plugins |-> <<>>, hooks |-> <<>>, image_tag |-> image_tag, result |-> result,
     at |-> "start", pos |-> 0, build_successful |-> TRUE, progress |-> 0,
     task |-> "running", tagged |-> {}, raised |-> None]

BuildInit ==
    \E image_tag \in BuildTags, result \in BuildStreams :
        /\ App = BuildApp(image_tag, result)
        /\ images = [c \in Names |-> None]
        /\ registry = None
        /\ client = <<>>
        /\ containers = [c \in Names |-> Loaded([required |-> {}, optional |-> {}])]
        /\ dependencies = [c \in Names |-> {}]
        /\ host = [rn \in RNames |-> Absent]
        /\ formation = <<>>
        /\ stop = TRUE
        /\ DriverAt("idle")
        /\ WorkersIdle
        /\ lastOp = NoOp

BuildFrame ==
    UNCHANGED <<graphVars, images, host, registry, client, formation, driverVars, workerVars>>

\* lines 73-95: the PRE_BUILD hooks run and the engine is asked to build
PreBuild ==
    /\ App.at = "start"
    /\ App' = [App EXCEPT !.hooks = Append(@, "PRE_BUILD"), !.at = "stream"]
    /\ lastOp' = lastOp
    /\ BuildFrame

\* lines 98-121: the next chunk of the build stream
ReadData ==
    /\ App.at = "stream"
    /\ App.pos < Len(App.result)
    /\ LET r == read_data(App.result[App.pos + 1], App.build_successful, App.progress)
       IN App' = [App EXCEPT !.pos = @ + 1, !.build_successful = r.build_successful,
                             !.progress = r.progress]
    /\ lastOp' = lastOp
    /\ BuildFrame

\* lines 122-151: the stream is exhausted
FinishBuild ==
    /\ App.at = "stream"
    /\ App.pos = Len(App.result)
    /\ IF build_failed(App.build_successful, App.image_tag)
       THEN App' = [App EXCEPT !.at = "done", !.task = "FAILED",
                               !.raised = "BuildFailureError"]
       ELSE App' = [App EXCEPT !.at = "done", !.tagged = {"latest"},
                               !.hooks = Append(@, "POST_BUILD"), !.task = "Done"]
    /\ lastOp' = [op |-> "build", arg |-> App.image_tag, ign |-> FALSE,
                  ok |-> ~build_failed(App.build_successful, App.image_tag),
                  pre |-> App.result]
    /\ BuildFrame

BuildNext == PreBuild \/ ReadData \/ FinishBuild

SpecBuild == BuildInit /\ [][BuildNext]_vars

Built == lastOp.op = "build"

\* C23: build() raises BuildFailureError exactly when the build stream
\* reported an error; a build whose stream holds no error runs the POST_BUILD
\* hooks and finishes its task as good, whatever the image tag is
C23_FailsIffError ==
    Built =>
        /\ (App.raised = "BuildFailureError") <=> ReportedError(lastOp.pre)
        /\ ~ReportedError(lastOp.pre) => (Fired("POST_BUILD") /\ App.task = "Done")

\* the same for tags other than "latest"
C23_FailsIffErrorUnlessLatest ==
    (Built /\ lastOp.arg # "latest") =>
        /\ (App.raised = "BuildFailureError") <=> ReportedError(lastOp.pre)
        /\ ~ReportedError(lastOp.pre) => (Fired("POST_BUILD") /\ App.task = "Done")

\* a build tagged "latest" whose stream reported no error raised all the same
C23_LatestFails ==
    (Built /\ lastOp.arg = "latest") =>
        /\ App.raised = "BuildFailureError"
        /\ ~Fired("POST_BUILD")

\* ---------------------------------------------------------------------------
\* run() touches only the planned instances (SpecRunner)
\* ---------------------------------------------------------------------------

Planned == to_stop \cup to_start

\* an instance of the desired formation that run() found running and
\* unchanged, linked to an instance that is both stopped and started
KeptBesideRestart(rn, d) ==
    /\ rn \in DOMAIN formation
    /\ rn \notin Planned
    /\ \E l \in formation[rn].links : l.name = d
    /\ d \in to_stop \cap to_start

RemovedAlone == lastOp.op = "remove_instance" /\ lastOp.ok /\ lastOp.ign

LinksTo(inst, rn) == \E l \in inst.links : l.name = rn

\* C25: remove_instance(i, ignore_dependencies=True) takes only i out of the
\* formation and leaves every other instance as it was; no container that
\* still has an instance keeps a graph edge to the container of i; and after
\* validate() no remaining instance has a link to i
C25_RemoveAloneUnlinks ==
    RemovedAlone =>
        /\ DOMAIN formation = DOMAIN lastOp.pre \ {RuntimeName(lastOp.arg)}
        /\ \A o \in DOMAIN formation :
              /\ formation[o] = lastOp.pre[o]
              /\ lastOp.arg \notin dependencies[formation[o].container]
              /\ ~LinksTo(ValidateFormation(formation)[o], RuntimeName(lastOp.arg))

\* i was removed alone while one remaining instance linked to it by instance
\* and another by name
C25_Reached ==
    /\ RemovedAlone
    /\ \E o \in DOMAIN formation : \E l \in formation[o].links :
          l.name = RuntimeName(lastOp.arg) /\ l.kind = "ref"
    /\ \E o \in DOMAIN formation : \E l \in formation[o].links :
          l.name = RuntimeName(lastOp.arg) /\ l.kind = "str"

\* ---------------------------------------------------------------------------
\* ContainerFormation.clone with object identity: containers/formation.py
\* lines 123-131 and 220-235.  The links dict, the devmodes set, the ports
\* dict and the environment dict of an instance are objects of a heap, and an
\* instance holds references to them.
\* ---------------------------------------------------------------------------

Sides == {"original", "clone"}

Fields == {"links", "devmodes", "ports", "environment"}

Objects == Sides \X RNames \X Fields

\* an instance made by ContainerInstance(...) with objects of its own
Fresh(side, c) ==
    [name |-> RuntimeName(c), container |-> c, self |-> <<side, RuntimeName(c)>>,
     links |-> <<side, RuntimeName(c), "links">>,
     devmodes |-> <<side, RuntimeName(c), "devmodes">>,
     ports |-> <<side, RuntimeName(c), "ports">>,
     environment |-> <<side, RuntimeName(c), "environment">>]

\* a link to the instance of container d that is a member of the formation
\* `side`
OwnedLinks(side, targets) ==
    {[alias |-> d, kind |-> "ref", name |-> RuntimeName(d), of |-> side] : d \in targets}

\* ContainerInstance.clone (lines 220-235): a new instance that is handed the
\* very objects of this one
instance_clone(inst) == [inst EXCEPT !.self = <<"clone", inst.name>>]

\* ContainerFormation.clone (lines 123-131)
formation_clone(F) == [rn \in DOMAIN F |-> instance_clone(F[rn])]

\* __attrs_post_init__ of every new instance: self.ports.update(container.ports)
post_init(heap, F) ==
    [o \in Objects |->
        IF \E rn \in DOMAIN F : F[rn].ports = o
        THEN heap[o] \cup containers[o[2][2]].ports ELSE heap[o]]

\* the instance with its objects read from the heap
Deref(inst, heap) ==
    [name |-> inst.name, container |-> inst.container,
     links |-> heap[inst.links], devmodes |-> heap[inst.devmodes],
     ports |-> heap[inst.ports], environment |-> heap[inst.environment]]

View(F, heap) == [rn \in DOMAIN F |-> Deref(F[rn], heap)]

\* obj[...] = value / del obj[...] / obj.remove(...) on one object
Store(heap, o, value) == [heap EXCEPT ![o] = value]

CloneApp(heap) == [plugins |-> <<>>, heap |-> heap, at |-> "start"]

\* a formation made by add_container under the chart's links; afterwards the
\* graph may have lost edges and the devmodes option may name a devmode the
\* container does not have
CloneInit ==
    \E D \in SUBSET Names \ {{}}, deps \in {PotentialLinks, ForwardLinks},
       devmodes \in SUBSET {"debug"}, sc \in {[kind |-> "ports", who |-> "db"]} :
        /\ containers = [c \in Names |-> Definition(sc, c)]
        /\ dependencies = deps
        /\ images = [c \in Names |-> CurrentImage]
        /\ registry = None
        /\ client = <<>>
        /\ host = [rn \in RNames |-> Absent]
        /\ formation = [rn \in {RuntimeName(c) : c \in D} |->
                            Fresh("original", ContainerOfName(rn))]
        /\ App = CloneApp([o \in Objects |->
               IF o[1] = "original" /\ ContainerOfName(o[2]) \in D
               THEN CASE o[3] = "links" ->
                           OwnedLinks("original", PotentialLinks[ContainerOfName(o[2])] \cap D)
                      [] o[3] = "devmodes" -> devmodes
                      [] OTHER -> {}
               ELSE {}])
        /\ stop = TRUE
        /\ DriverAt("idle")
        /\ WorkersIdle
        /\ lastOp = NoOp

CloneFrame ==
    UNCHANGED <<graphVars, images, host, registry, client, formation, stop, pc, phase, to_stop,
                to_start, queued, processing, done, idle_iterations, error, workerVars>>

CloneOp(op, rn) ==
    lastOp' = [op |-> op, arg |-> rn, ign |-> FALSE, ok |-> TRUE,
               pre |-> View(formation, App.heap)]

\* current_formation = formation.clone()
CloneTheFormation ==
    /\ App.at = "start"
    /\ current_formation' = formation_clone(formation)
    /\ App' = [App EXCEPT !.at = "cloned",
                          !.heap = post_init(@, formation_clone(formation))]
    /\ CloneOp("clone", None)
    /\ CloneFrame

\* clone.add_instance(ContainerInstance(...)) for a container it lacks
CloneAddInstance(c) ==
    /\ App.at = "cloned"
    /\ RuntimeName(c) \notin DOMAIN current_formation
    /\ current_formation' = add_instance(current_formation, Fresh("clone", c))
    /\ App' = [App EXCEPT !.heap = post_init(@, [rn \in {RuntimeName(c)} |-> Fresh("clone", c)])]
    /\ CloneOp("add_instance", RuntimeName(c))
    /\ CloneFrame

\* clone.remove_instance(instance)
CloneRemoveInstance(rn) ==
    /\ App.at = "cloned"
    /\ rn \in DOMAIN current_formation
    /\ LET r == remove_instance(current_formation, dependencies, rn, FALSE)
       IN /\ r.ok
          /\ current_formation' = r.formation
    /\ App' = App
    /\ CloneOp("remove_instance", rn)
    /\ CloneFrame

\* clone[rn].validate(): links and devmodes are pruned in place
CloneValidate(rn) ==
    /\ App.at = "cloned"
    /\ rn \in DOMAIN current_formation
    /\ LET inst == current_formation[rn]
           v == validate(Deref(inst, App.heap), current_formation)
       IN App' = [App EXCEPT !.heap = Store(Store(@, inst.links, v.links),
                                            inst.devmodes, v.devmodes)]
    /\ current_formation' = current_formation
    /\ CloneOp("validate", rn)
    /\ CloneFrame

\* clone[rn].environment[key] = value  /  clone[rn].ports[a] = b, for an
\* instance of the clone that clone() made
CloneEdit(rn, field, entry) ==
    /\ App.at = "cloned"
    /\ rn \in DOMAIN current_formation
    /\ current_formation[rn][field][1] = "original"
    /\ App' = [App EXCEPT !.heap = Store(@, current_formation[rn][field],
                                         @[current_formation[rn][field]] \cup {entry})]
    /\ current_formation' = current_formation
    /\ CloneOp(field, rn)
    /\ CloneFrame

CloneNext ==
    \/ CloneTheFormation
    \/ \E c \in Names : CloneAddInstance(c)
    \/ \E rn \in RNames : CloneRemoveInstance(rn)
    \/ \E rn \in RNames : CloneValidate(rn)
    \/ \E rn \in RNames : CloneEdit(rn, "environment", "MODE=dev")
    \/ \E rn \in RNames : CloneEdit(rn, "ports", "9090:90")

SpecClone == CloneInit /\ [][CloneNext]_vars

ChangedInClone ==
    lastOp.op \in {"add_instance", "remove_instance", "validate", "environment", "ports"}

\* C26: a change made in the clone (an instance added or removed, validate()
\* on a cloned instance, an entry put into the environment or the ports of a
\* cloned instance) leaves every instance of the original formation as it
\* was, and every link of an instance of the clone points to an instance
\* that is a member of the clone
C26_CloneIsUnlinked ==
    /\ ChangedInClone => View(formation, App.heap) = lastOp.pre
    /\ App.at = "cloned" =>
          \A rn \in DOMAIN current_formation :
              \A l \in App.heap[current_formation[rn].links] :
                  l.of = "clone" /\ l.name \in DOMAIN current_formation

\* the part of C26 that holds: the clone has instances of its own, so adding
\* and removing instances in the clone leaves the original's membership and
\* instances as they were
C26_MembershipIsUnlinked ==
    /\ App.at = "cloned" =>
          \A rn \in DOMAIN current_formation \cap DOMAIN formation :
              current_formation[rn].self # formation[rn].self
    /\ lastOp.op \in {"add_instance", "remove_instance"} =>
          View(formation, App.heap) = lastOp.pre

\* ---------------------------------------------------------------------------
\* What introspect() returns (SpecRunner: run(), stop_containers and
\* start_containers each keep the result in current_formation)
\* ---------------------------------------------------------------------------

Introspected == phase \in {"stop", "start"}

\* C27: in the formation introspect() returned, every link value is an
\* instance that is a member of that formation; none is still a name string
C27_LinksAreMembers ==
    Introspected =>
        \A rn \in DOMAIN current_formation : \A l \in current_formation[rn].links :
            l.kind = "ref" /\ l.name \in DOMAIN current_formation

\* the part of C27 that holds: a link whose target is not in the formation
\* is deleted
C27_LinksNameMembers ==
    Introspected =>
        \A rn \in DOMAIN current_formation : \A l \in current_formation[rn].links :
            l.name \in DOMAIN current_formation

\* ---------------------------------------------------------------------------
\* The network of the formation: docker/runner.py line 18 and lines 210-218,
\* start workers of any runner of the process running side by side
\* ---------------------------------------------------------------------------

\* threading.Lock.acquire as it would be without the lock
network_lock_acquire_free(holders) == TRUE

\* line 211, threading.Lock.acquire: returns only while no thread holds it
network_lock_acquire(holders) == holders = {}

NetworkApp(exists) ==
    [plugins |-> <<>>, network |-> exists, network_lock |-> {}, created |-> 0]

\* start workers, some already spawned, for a formation whose network may or
\* may not exist yet
NetworkInit ==
    \E W \in SUBSET Tids, exists \in BOOLEAN :
        /\ containers = [c \in Names |-> Definition([kind |-> "none", who |-> "api"], c)]
        /\ dependencies = [c \in Names |-> {}]
        /\ images = [c \in Names |-> CurrentImage]
        /\ registry = None
        /\ client = <<>>
        /\ App = NetworkApp(exists)
        /\ host = [rn \in RNames |-> Absent]
        /\ formation = [rn \in RNames |-> Desired(ContainerOfName(rn), {})]
        /\ stop = TRUE
        /\ DriverAt("collect")
        /\ wpc = [t \in Tids |-> IF t \in W THEN "lock" ELSE "none"]
        /\ wkind = [t \in Tids |-> IF t \in W THEN "start" ELSE "none"]
        /\ wexc = [t \in Tids |-> None]
        /\ spins = [t \in Tids |-> 0]
        /\ changing_containers = {}
        /\ lastOp = NoOp

NetworkFrame ==
    UNCHANGED <<graphVars, images, registry, client, formation, driverVars, wkind, wexc,
                spins, lastOp>>

\* lines 202-211: remove_stopped, the PRE_RUN_CONTAINER hooks, then the
\* thread enters `with network_lock`
NetworkAcquire(t) ==
    /\ wpc[t] = "body"
    /\ ~container_running(TName(t))
    /\ network_lock_acquire(App.network_lock)
    /\ App' = [App EXCEPT !.network_lock = @ \cup {t}]
    /\ wpc' = [wpc EXCEPT ![t] = "network"]
    /\ UNCHANGED <<host, changing_containers>>
    /\ NetworkFrame

\* lines 212-214: inspect_network returns (the with-block ends) or raises
\* NotFound
NetworkInspect(t) ==
    /\ wpc[t] = "network"
    /\ IF App.network
       THEN /\ App' = [App EXCEPT !.network_lock = @ \ {t}]
            /\ wpc' = [wpc EXCEPT ![t] = "networked"]
       ELSE /\ App' = App
            /\ wpc' = [wpc EXCEPT ![t] = "missing"]
    /\ UNCHANGED <<host, changing_containers>>
    /\ NetworkFrame

\* lines 215-218: create_network, then the with-block ends
NetworkCreate(t) ==
    /\ wpc[t] = "missing"
    /\ App' = [App EXCEPT !.network = TRUE, !.created = @ + 1,
                          !.network_lock = @ \ {t}]
    /\ wpc' = [wpc EXCEPT ![t] = "networked"]
    /\ UNCHANGED <<host, changing_containers>>
    /\ NetworkFrame

\* lines 219-344 for a background instance that boots, then entry_lock line 69
NetworkStarted(t) ==
    /\ wpc[t] = "networked"
    /\ host' = [host EXCEPT ![TName(t)] =
                   [Created(formation[TName(t)]) EXCEPT !.state = "running"]]
    /\ Release(t)
    /\ wpc' = [wpc EXCEPT ![t] = "done"]
    /\ App' = App
    /\ NetworkFrame

NetworkNext ==
    \E t \in Tids :
        \/ WorkerAcquire(t)
        \/ StartAlreadyRunning(t)
        \/ NetworkAcquire(t)
        \/ NetworkInspect(t)
        \/ NetworkCreate(t)
        \/ NetworkStarted(t)

SpecNetwork == NetworkInit /\ [][NetworkNext]_vars

\* the threads between inspect_network and the end of the with-block
InNetworkBlock == {t \in Tids : wpc[t] \in {"network", "missing"}}

\* C30: however many start workers run, create_network is called at most
\* once, and at most one worker at a time is inside the inspect-then-create
\* sequence
C30_NetworkCreatedOnce ==
    /\ App.created <= 1
    /\ Cardinality(InNetworkBlock) <= 1

\* the network did not exist and was created once; every container runs,
\* every spawned worker has finished, and some of them were second workers
\* for an instance
C30_Reached ==
    /\ App.created = 1
    /\ \A rn \in RNames : container_running(rn)
    /\ \A t \in Tids : wpc[t] \in {"none", "done"}
    /\ Cardinality({t \in Tids : wpc[t] = "done"}) > Cardinality(RNames)

\* ---------------------------------------------------------------------------
\* Termination of the start worker (SpecBootFair)
\* ---------------------------------------------------------------------------

InProbeLoop == wpc[Booter] \in {"probe", "sleeping"}

\* C36: the background start worker eventually finishes, returning or
\* raising; in particular it eventually leaves the seedship polling loop,
\* whatever the container writes
C36_ProbeLoopEnds == <>(~InProbeLoop)

\* ---------------------------------------------------------------------------
\* No deadlock for a well-formed desired formation (SpecRunner)
\* ---------------------------------------------------------------------------

LinkRelation(F) == [rn \in DOMAIN F |-> {l.name : l \in F[rn].links} \cap DOMAIN F]

RECURSIVE LinkedFrom(_, _)
LinkedFrom(F, S) ==
    LET more == S \cup UNION {LinkRelation(F)[rn] : rn \in S \cap DOMAIN F}
    IN IF more = S THEN S ELSE LinkedFrom(F, more)

\* no instance reaches itself through links
AcyclicLinks(F) == \A rn \in DOMAIN F : rn \notin LinkedFrom(F, LinkRelation(F)[rn])

\* every link value is an instance of the formation
ClosedLinks(F) ==
    \A rn \in DOMAIN F : \A l \in F[rn].links : l.kind = "ref" /\ l.name \in DOMAIN F

WellFormed == AcyclicLinks(formation) /\ ClosedLinks(formation)

\* C34: when the links of the desired formation are acyclic and every link
\* target is an instance of the formation, run() does not raise the deadlock
\* error, in the stop phase or in the start phase, whatever runs on the host
C34_NoDeadlock == WellFormed => error.kind # "Deadlock"

\* run() returned for a chain of three linked instances: the first was
\* started, the second stopped and started again, the third ran unchanged
C34_Reached ==
    /\ WellFormed
    /\ pc = "returned"
    /\ stop
    /\ \E a \in to_start, b \in to_start \cap to_stop, c \in DOMAIN formation \ Planned :
          /\ b \in LinkRelation(formation)[a]
          /\ c \in LinkRelation(formation)[b]

\* ---------------------------------------------------------------------------
\* plugins/run.py  run_formation around FormationRunner.run()
\* ---------------------------------------------------------------------------

\* exceptions.py: the errors of the runner that are DockerRuntimeError
DockerRuntimeErrors == {"Deadlock", "BOOT_FAIL"}

\* e.instance: runner.py lines 339-343 pass instance=, lines 111-115 do not
\* (the attribute is then the default None of exceptions.py line 44)
error_instance(err) ==
    IF err.kind = "BOOT_FAIL" THEN CHOOSE rn \in err.names : TRUE ELSE None

\* lines 171-183: what the try statement leaves behind.  `e.instance.container`
\* on an error without instance raises AttributeError inside the handler
handle_run(err) ==
    CASE err.kind = "none" ->
            [propagated |-> None, error_message |-> None]
      [] err.kind \in DockerRuntimeErrors /\ error_instance(err) # None ->
            [propagated |-> None, error_message |-> err.kind]
      [] err.kind \in DockerRuntimeErrors /\ error_instance(err) = None ->
            [propagated |-> "AttributeError", error_message |-> None]
      [] OTHER ->
            [propagated |-> err.kind, error_message |-> None]

RunFormationApp(run_hook) ==
    [plugins |-> <<>>, hooks |-> <<>>, run_hook |-> run_hook, at |-> "start",
     printed |-> None, propagated |-> None]

\* the charts of the runs: plain, with a foreground container, with an
\* abstract one
RunFormationScenarios ==
    {[kind |-> "none", who |-> "api"], [kind |-> "foreground", who |-> "db"],
     [kind |-> "abstract", who |-> "web"]}

\* run_formation(app, host, formation, task) for any desired formation over
\* the chart and any set of running containers; the task is "Stopping
\* containers" or another one
RunFormationInit ==
    \E sc \in RunFormationScenarios, D \in SUBSET Names, L \in SUBSET Names,
       R \in SUBSET Names, run_hook \in BOOLEAN :
        /\ L \subseteq D
        /\ sc.kind # "none" => sc.who \in D
        /\ containers = [c \in Names |-> Definition(sc, c)]
        /\ dependencies = PotentialLinks
        /\ images = [c \in Names |-> CurrentImage]
        /\ registry = None
        /\ client = <<>>
        /\ App = RunFormationApp(run_hook)
        /\ host = [rn \in RNames |->
               IF ContainerOfName(rn) \in R
               THEN Running(sc, ContainerOfName(rn))
               ELSE Absent]
        /\ formation = [rn \in {RuntimeName(c) : c \in D} |->
               Desired(ContainerOfName(rn),
                       IF ContainerOfName(rn) \in L
                       THEN RefLinks(PotentialLinks[ContainerOfName(rn)]) ELSE {})]
        /\ stop = TRUE
        /\ DriverAt("idle")
        /\ WorkersIdle
        /\ lastOp = NoOp

\* lines 156-170: the PRE_GROUP_START hooks, then FormationRunner(...).run()
PreGroupStart ==
    /\ App.at = "start"
    /\ pc = "idle"
    /\ App' = [App EXCEPT !.at = "running",
                          !.hooks = IF App.run_hook THEN Append(@, "PRE_GROUP_START") ELSE @]
    /\ pc' = "init"
    /\ UNCHANGED <<graphVars, images, host, registry, client, formation, stop, phase, to_stop,
                   to_start, current_formation, queued, processing, done, idle_iterations,
                   error, workerVars, lastOp>>

\* lines 171-194: run() returned or raised
AfterRun ==
    /\ App.at = "running"
    /\ pc \in {"returned", "raised"}
    /\ LET h == handle_run(error)
       IN IF h.propagated # None
          THEN App' = [App EXCEPT !.at = "ended", !.propagated = h.propagated]
          ELSE App' = [App EXCEPT !.at = "ended", !.printed = h.error_message,
                          !.hooks = IF App.run_hook THEN Append(@, "POST_GROUP_START")
                                    ELSE @]
    /\ lastOp' = [op |-> "run_formation", arg |-> error.kind, ign |-> FALSE,
                  ok |-> pc = "returned", pre |-> <<>>]
    /\ UNCHANGED <<graphVars, images, host, registry, client, formation, driverVars,
                   workerVars>>

RunFormationNext == PreGroupStart \/ RunnerNext \/ AfterRun

SpecRunFormation == RunFormationInit /\ [][RunFormationNext]_vars

RunFormationEnded == App.at = "ended"

\* C38: when run_formation ends after a run that succeeded or raised a
\* DockerRuntimeError (the deadlock error included), the error has become a
\* printed message, and the POST_GROUP_START hooks have fired if the
\* PRE_GROUP_START hooks had
C38_ErrorsReported ==
    (RunFormationEnded /\ error.kind \in {"none"} \cup DockerRuntimeErrors) =>
        /\ error.kind \in DockerRuntimeErrors => App.printed # None
        /\ Fired("PRE_GROUP_START") => Fired("POST_GROUP_START")

\* the part of C38 that holds: a boot failure, which carries its instance,
\* is printed and is followed by the POST_GROUP_START hooks, and so is a
\* run that succeeded
C38_BootFailureReported ==
    (RunFormationEnded /\ error.kind \in {"none", "BOOT_FAIL"}) =>
        /\ error.kind = "BOOT_FAIL" => App.printed = "BOOT_FAIL"
        /\ Fired("PRE_GROUP_START") => Fired("POST_GROUP_START")

\* ---------------------------------------------------------------------------
\* plugins/boot.py  the nested runner of the PRE_RUN_CONTAINER hook.  A start
\* worker is named by its call chain: <<"api">> is the worker of the command's
\* runner for api, <<"api", "db">> the worker for db of the runner that the
\* hook of <<"api">> launched.  Every worker of the process shares the one
\* module-level changing_containers set.
\* ---------------------------------------------------------------------------

\* the 'boot: run:' sections a chart may have: calculate_boot_containers
\* (lines 66-75) rejects a required boot container that is the container
\* itself or one of its build ancestry, and nothing else
BootConfigs == {boot \in [Names -> SUBSET Names] : \A c \in Names : c \notin boot[c]}

\* a chain in which a name repeats stops at the repeat, so this holds all
Chain == UNION {[1..n -> Names] : n \in 1..(Cardinality(Names) + 1)}

Last(chain) == chain[Len(chain)]

Callers(chain) == {SubSeq(chain, 1, n) : n \in 1..(Len(chain) - 1)}

\* run_boot_containers lines 84-98 with every image present: the boot
\* containers that introspection does not find running
to_boot(c, h) == {b \in containers[c].boot : h[RuntimeName(b)].state # "running"}

NestedApp(S) ==
    [plugins |-> <<"BootPlugin">>,
     calls |-> [chain \in {<<c>> : c \in S} |-> "lock"]]

\* `ftl run` starts workers for the containers S on a host where the
\* containers R run already
NestedInit ==
    \E boot \in BootConfigs, S \in SUBSET Names \ {{}}, R \in SUBSET Names :
        /\ Cardinality(S) <= 2
        /\ containers = [c \in Names |->
               Definition([kind |-> "none", who |-> "api"], c) @@ [boot |-> boot[c]]]
        /\ dependencies = [c \in Names |-> {}]
        /\ images = [c \in Names |-> CurrentImage]
        /\ registry = None
        /\ client = <<>>
        /\ App = NestedApp(S)
        /\ host = [rn \in RNames |->
               IF ContainerOfName(rn) \in R
               THEN Running([kind |-> "none", who |-> "api"], ContainerOfName(rn))
               ELSE Absent]
        /\ formation = [rn \in RNames |-> Desired(ContainerOfName(rn), {})]
        /\ stop = TRUE
        /\ DriverAt("collect")
        /\ WorkersIdle
        /\ lastOp = NoOp

NestedFrame ==
    UNCHANGED <<graphVars, images, registry, client, formation, driverVars, wpc, wkind, wexc,
                spins, lastOp>>

At(chain, position) == chain \in DOMAIN App.calls /\ App.calls[chain] = position

Move(chain, position) == App' = [App EXCEPT !.calls[chain] = position]

\* entry_lock lines 66-68: check_and_add succeeded
NestedAcquire(chain) ==
    /\ At(chain, "lock")
    /\ check_and_add(RuntimeName(Last(chain)))
    /\ changing_containers' = changing_containers \cup {RuntimeName(Last(chain))}
    /\ Move(chain, "body")
    /\ host' = host
    /\ NestedFrame

\* start_container lines 198-201: the container runs already
NestedAlreadyRunning(chain) ==
    /\ At(chain, "body")
    /\ container_running(RuntimeName(Last(chain)))
    /\ changing_containers' = changing_containers \ {RuntimeName(Last(chain))}
    /\ Move(chain, "done")
    /\ host' = host
    /\ NestedFrame

\* start_container line 209 and boot.py lines 41-43, 84-106: the hook finds
\* the boot containers to start and runs a FormationRunner for them, whose
\* parallel_execute starts a worker for each
NestedPreStart(chain) ==
    /\ At(chain, "body")
    /\ ~container_running(RuntimeName(Last(chain)))
    /\ LET starting == to_boot(Last(chain), host)
       IN App' = [App EXCEPT !.calls =
              [ch \in DOMAIN @ \cup {Append(chain, b) : b \in starting} |->
                  IF ch = chain THEN "hook"
                  ELSE IF ch \in DOMAIN @ THEN @[ch] ELSE "lock"]]
    /\ UNCHANGED <<host, changing_containers>>
    /\ NestedFrame

\* boot.py lines 106-107: the nested runner's run() returned, every worker
\* of it having finished; then start_container lines 210-344, then
\* entry_lock line 69
NestedStarted(chain) ==
    /\ At(chain, "hook")
    /\ \A ch \in DOMAIN App.calls :
          (Len(ch) = Len(chain) + 1 /\ chain \in Callers(ch)) => App.calls[ch] = "done"
    /\ host' = [host EXCEPT ![RuntimeName(Last(chain))] =
                   [Created(formation[RuntimeName(Last(chain))]) EXCEPT !.state = "running"]]
    /\ changing_containers' = changing_containers \ {RuntimeName(Last(chain))}
    /\ Move(chain, "done")
    /\ NestedFrame

NestedNext ==
    \E chain \in Chain :
        \/ NestedAcquire(chain)
        \/ NestedAlreadyRunning(chain)
        \/ NestedPreStart(chain)
        \/ NestedStarted(chain)

SpecNested == NestedInit /\ [][NestedNext]_vars

\* the worker asks for a lock that a worker of its own call chain holds
\* while it waits in its hook for this very worker
LocksOwnChain(chain) ==
    /\ At(chain, "lock")
    /\ \E caller \in Callers(chain) : Last(caller) = Last(chain) /\ At(caller, "hook")

\* C35: no start worker asks for a runtime-name lock that is held by a
\* worker of its own call chain, so none waits for a lock forever
C35_NoLockFromOwnChain == \A chain \in DOMAIN App.calls : ~LocksOwnChain(chain)

\* no container reaches itself through run-phase boot containers
RECURSIVE BootReach(_)
BootReach(S) ==
    LET more == S \cup UNION {containers[c].boot : c \in S}
    IN IF more = S THEN S ELSE BootReach(more)

AcyclicBoot == \A c \in Names : c \notin BootReach(containers[c].boot)

\* the part of C35 that holds: with boot sections that form no cycle no
\* worker asks for a lock of its own call chain
C35_AcyclicBootNeverSelfLocks ==
    AcyclicBoot => \A chain \in DOMAIN App.calls : ~LocksOwnChain(chain)

\* ---------------------------------------------------------------------------
\* Termination of parallel_execute (SpecRunnerFair)
\* ---------------------------------------------------------------------------

\* the loop of parallel_execute (lines 83-118) and the threads it starts
ParallelExecute ==
    DriverSpawn \/ DriverCollect \/ DriverCheck \/ \E rn \in RNames : Worker(Mine(rn))

\* the driver thread and every worker thread keep being scheduled, and every
\* engine call of a worker returns: the premise "every worker terminates"
SpecRunnerFair ==
    /\ RunnerInitOver(RunFormationScenarios)
    /\ [][RunnerNext]_vars
    /\ WF_<<driverVars, workerVars, host>>(ParallelExecute)

DriverEnded == pc \in {"returned", "raised", "exited"}

\* when run() has returned nothing is queued or processing, and every
\* instance of the phase's input has a worker that ran to its end
ExecutedAll ==
    pc = "returned" =>
        /\ queued = {} /\ processing = {}
        /\ phase = "start" => \A rn \in to_start : rn \in done /\ wpc[Mine(rn)] = "done"
        /\ phase = "stop" => \A rn \in to_stop : rn \in done /\ wpc[Mine(rn)] = "done"

\* C39: once parallel_execute has been entered the driver loop ends, by
\* returning with every instance executed and done or by raising; no
\* instance stays queued or processing forever
C39_Terminates == []ExecutedAll /\ [](pc = "spawn" => <>DriverEnded)

\* run() has returned after a stop phase and a start phase of two instances
C39_Reached ==
    /\ pc = "returned" /\ phase = "start" /\ to_stop # {}
    /\ Cardinality(to_start) >= 2
    /\ \A rn \in to_start : rn \in done /\ wpc[Mine(rn)] = "done"

\* ---------------------------------------------------------------------------
\* cli/tasks.py  the task tree and its rendering (SpecTasks)
\* ---------------------------------------------------------------------------

\* the root task, a task of one worker and the task another worker creates
TaskIds == {"root", "a", "b"}

\* the worker that constructs task b, the worker that updates task a and the
\* thread that pauses the output
TaskThreads == {"builder", "updater", "pauser"}

\* Task.__init__ lines 30-57: the attributes in the order they are assigned
TaskFields ==
    <<"name", "hide_if_empty", "collapse_if_finished", "parent", "subtasks", "status",
      "progress", "progress_formatter", "status_flavor", "extra_info", "finished",
      "cleared_lines", "output_paused">>

FieldIndex(f) == CHOOSE i \in 1..Len(TaskFields) : TaskFields[i] = f

\* getattr: the attribute exists once __init__ has assigned it
has_field(t, f) == FieldIndex(f) <= App.assigned[t]

\* Task.output lines 140-171: the attributes of the task that one call reads
\* (progress is None, so progress_formatter is not read)
output_reads(t) ==
    {"hide_if_empty"}
        \cup (IF App.hide_if_empty[t] THEN {"subtasks"} ELSE {})
        \cup (IF App.hide_if_empty[t] /\ App.subtasks[t] = <<>>
              THEN {}
              ELSE {"progress", "status", "status_flavor", "name", "finished",
                    "collapse_if_finished", "extra_info", "subtasks"})

RECURSIVE output_raises(_)
\* Task.output / RootTask.output: TRUE iff the generator raises AttributeError,
\* which it does at the first attribute that is read before it was assigned
output_raises(t) ==
    \/ t # "root" /\ \E f \in output_reads(t) : ~has_field(t, f)
    \/ /\ t = "root" \/ ~(App.hide_if_empty[t] /\ App.subtasks[t] = <<>>)
       /\ \E i \in 1..Len(App.subtasks[t]) : output_raises(App.subtasks[t][i])

RECURSIVE output_lines(_)
\* the number of lines output yields: one for every task that is not hidden
output_lines(t) ==
    IF t # "root" /\ App.hide_if_empty[t] /\ App.subtasks[t] = <<>>
    THEN 0
    ELSE (IF t = "root" THEN 0 ELSE 1)
         + (IF App.subtasks[t] = <<>> THEN 0
            ELSE output_lines(App.subtasks[t][1])
                 + (IF Len(App.subtasks[t]) > 1 THEN output_lines(App.subtasks[t][2]) ELSE 0))

\* the root task and task a exist; Task("b", parent=..., hide_if_empty=...)
\* is about to be called
TasksApp(parent, hide) ==
    [plugins |-> <<>>,
     at |-> [th \in TaskThreads |-> IF th = "builder" THEN "init" ELSE "idle"],
     assigned |-> [t \in TaskIds |-> IF t = "b" THEN 0 ELSE Len(TaskFields)],
     parent |-> [t \in TaskIds |-> IF t = "a" THEN "root" ELSE IF t = "b" THEN parent ELSE None],
     hide_if_empty |-> [t \in TaskIds |-> t = "b" /\ hide],
     subtasks |-> [t \in TaskIds |-> IF t = "root" THEN <<"a">> ELSE <<>>],
     status |-> [t \in TaskIds |-> None],
     console_lock |-> None,
     output_paused |-> FALSE,
     cleared_lines |-> 1,
     scopes |-> 0]

TasksInit ==
    \E parent \in {"root", "a"}, hide \in BOOLEAN :
        /\ App = TasksApp(parent, hide)
        /\ images = [c \in Names |-> None]
        /\ registry = None
        /\ client = <<>>
        /\ containers = [c \in Names |-> Loaded([required |-> {}, optional |-> {}])]
        /\ dependencies = [c \in Names |-> {}]
        /\ host = [rn \in RNames |-> Absent]
        /\ formation = <<>>
        /\ stop = TRUE
        /\ DriverAt("idle")
        /\ WorkersIdle
        /\ lastOp = NoOp

TasksFrame ==
    UNCHANGED <<graphVars, images, host, registry, client, formation, driverVars, workerVars>>

\* __init__ lines 30-35 and 41-57: the next attribute is assigned; after the
\* last one line 59 calls self.update()
AssignField ==
    /\ App.at["builder"] = "init"
    /\ App.assigned["b"] < Len(TaskFields)
    /\ App.assigned["b"] = FieldIndex("parent") => "b" \in SeqRange(App.subtasks[App.parent["b"]])
    /\ App' = [App EXCEPT !.assigned["b"] = @ + 1,
                          !.at["builder"] =
                              IF App.assigned["b"] + 1 = Len(TaskFields) THEN "update" ELSE @]
    /\ lastOp' = [op |-> "assign", arg |-> "b", ign |-> FALSE, ok |-> TRUE, pre |-> <<>>]
    /\ TasksFrame

\* __init__ lines 37-39: under the console lock the task joins its parent
AppendSelf ==
    /\ App.at["builder"] = "init"
    /\ App.assigned["b"] = FieldIndex("parent")
    /\ "b" \notin SeqRange(App.subtasks[App.parent["b"]])
    /\ App.console_lock = None
    /\ App' = [App EXCEPT !.subtasks[App.parent["b"]] = Append(@, "b")]
    /\ lastOp' = [op |-> "append", arg |-> "b", ign |-> FALSE, ok |-> TRUE, pre |-> <<>>]
    /\ TasksFrame

\* a worker calls update(status=...) on its task a
StartUpdate ==
    /\ App.at["updater"] = "idle"
    /\ App' = [App EXCEPT !.at["updater"] = "update"]
    /\ lastOp' = [op |-> "call", arg |-> "a", ign |-> FALSE, ok |-> TRUE, pre |-> <<>>]
    /\ TasksFrame

\* update lines 68-82: the attributes are set under the console lock, then
\* the call climbs to the root, which calls clear_and_output
Update(th) ==
    /\ App.at[th] = "update"
    /\ App.console_lock = None
    /\ \E message \in {None, "working"} :
           App' = [App EXCEPT !.at[th] = "check",
                              !.status["a"] = IF th = "updater" /\ message # None
                                              THEN message ELSE @]
    /\ lastOp' = [op |-> "update", arg |-> th, ign |-> FALSE, ok |-> TRUE, pre |-> <<>>]
    /\ TasksFrame

\* where a thread continues after clear_and_output
AfterRender(th) == IF th = "builder" THEN "done" ELSE "idle"

\* clear_and_output lines 181-182: output_paused is read without the lock
CheckPaused(th) ==
    /\ App.at[th] = "check"
    /\ App' = [App EXCEPT !.at[th] = IF App.output_paused THEN AfterRender(th) ELSE "acquire"]
    /\ lastOp' = [op |-> "check", arg |-> th, ign |-> FALSE, ok |-> TRUE, pre |-> <<>>]
    /\ TasksFrame

\* clear_and_output lines 184-188: the lock is taken and the tree is read; an
\* AttributeError of output leaves the with block and ends the caller
AcquireAndOutput(th) ==
    /\ App.at[th] = "acquire"
    /\ App.console_lock = None
    /\ IF output_raises("root")
       THEN App' = [App EXCEPT !.at[th] = "raised"]
       ELSE App' = [App EXCEPT !.at[th] = "print", !.console_lock = th]
    /\ lastOp' = [op |-> "output", arg |-> th, ign |-> FALSE,
                  ok |-> ~output_raises("root"), pre |-> <<App.assigned["b"]>>]
    /\ TasksFrame

\* clear_and_output lines 189-208: the lines are written to the terminal and
\* the lock is released
PrintOutput(th) ==
    /\ App.at[th] = "print"
    /\ App' = [App EXCEPT !.at[th] = AfterRender(th), !.console_lock = None,
                          !.cleared_lines = output_lines("root")]
    /\ lastOp' = [op |-> "print", arg |-> th, ign |-> FALSE, ok |-> TRUE,
                  pre |-> <<App.scopes>>]
    /\ TasksFrame

\* paused_output line 229: _pause_output(True) sets the flag of the root
EnterPaused ==
    /\ App.at["pauser"] = "idle"
    /\ App.scopes < 2
    /\ App' = [App EXCEPT !.scopes = @ + 1, !.output_paused = TRUE]
    /\ lastOp' = [op |-> "enter", arg |-> "pauser", ign |-> FALSE, ok |-> TRUE, pre |-> <<>>]
    /\ TasksFrame

\* paused_output line 231 and _pause_output lines 215-220: the body ended
ExitPaused ==
    /\ App.at["pauser"] = "idle"
    /\ App.scopes > 0
    /\ App' = [App EXCEPT !.scopes = @ - 1, !.output_paused = FALSE,
                          !.cleared_lines = 0, !.at["pauser"] = "check"]
    /\ lastOp' = [op |-> "exit", arg |-> "pauser", ign |-> FALSE, ok |-> TRUE, pre |-> <<>>]
    /\ TasksFrame

\* paused_output line 230: the body raises; the exception is thrown into the
\* generator at its yield, which has no try, so line 231 does not run
RaiseInPaused ==
    /\ App.at["pauser"] = "idle"
    /\ App.scopes > 0
    /\ App' = [App EXCEPT !.scopes = @ - 1]
    /\ lastOp' = [op |-> "exit", arg |-> "pauser", ign |-> FALSE, ok |-> FALSE, pre |-> <<>>]
    /\ TasksFrame

TasksNext ==
    \/ AssignField
    \/ AppendSelf
    \/ StartUpdate
    \/ \E th \in TaskThreads : Update(th)
    \/ \E th \in TaskThreads : CheckPaused(th)
    \/ \E th \in TaskThreads : AcquireAndOutput(th)
    \/ \E th \in TaskThreads : PrintOutput(th)
    \/ EnterPaused
    \/ ExitPaused
    \/ RaiseInPaused

SpecTasks == TasksInit /\ [][TasksNext]_vars

\* C37: a render never observes a partially constructed task: no call of
\* output raises for an attribute that __init__ has not assigned yet
C37_RenderSeesWholeTasks == lastOp.op = "output" => lastOp.ok

\* the part of C37 that holds: a task that is not yet in its parent's
\* subtasks is never read by a render
C37_UnlinkedTaskUnseen ==
    lastOp.op = "output" /\ lastOp.pre[1] < FieldIndex("parent") => lastOp.ok

\* C31: no render writes to the terminal while a paused_output scope is
\* active, and when the outermost scope has exited, normally or by an
\* exception, the output is no longer paused and cleared_lines is 0
C31_PausedMeansSilent ==
    /\ lastOp.op = "print" => lastOp.pre[1] = 0
    /\ lastOp.op = "exit" /\ App.scopes = 0 => ~App.output_paused /\ App.cleared_lines = 0

\* the part of C31 that holds: a render that reads the flag while a single,
\* not nested scope is active writes nothing
C31_SingleScopeSkipsRender ==
    lastOp.op = "check" /\ App.scopes = 1 /\ App.output_paused
        => App.at[lastOp.arg] # "acquire"

\* ---------------------------------------------------------------------------
\* cli/tasks.py  rate_limit (SpecRateLimit)
\* ---------------------------------------------------------------------------

\* the two methods of BufferedTask
ProxyKinds == {"update", "set_extra_info"}

\* the calls the body of the with block makes through the proxy
ProxyCalls == [kind : ProxyKinds, value : {"first", "second"}]

ProxyBodies == UNION {[1..n -> ProxyCalls] : n \in 1..3}

\* BufferedTask.set_extra_info / update lines 257-261: the methods store into
\* self.buffered_changes, an attribute the proxy object does not have (the
\* dictionary is a local variable of rate_limit), so the call raises and the
\* dictionary is left as it was
proxy_call(buffered_changes, call) ==
    [buffered_changes |-> buffered_changes, raised |-> "AttributeError"]

\* rate_limit lines 238 and 264-268: the dictionary holds "running" only, the
\* flush thread is started and the body is entered
RateLimitApp(body) ==
    [plugins |-> <<>>, body |-> body, pos |-> 0, at |-> "body", flusher |-> "test",
     running |-> TRUE, buffered_changes |-> [k \in ProxyKinds |-> None],
     task |-> [k \in ProxyKinds |-> None], last |-> [k \in ProxyKinds |-> None],
     raised |-> None]

RateLimitInit ==
    \E body \in ProxyBodies :
        /\ App = RateLimitApp(body)
        /\ images = [c \in Names |-> None]
        /\ registry = None
        /\ client = <<>>
        /\ containers = [c \in Names |-> Loaded([required |-> {}, optional |-> {}])]
        /\ dependencies = [c \in Names |-> {}]
        /\ host = [rn \in RNames |-> Absent]
        /\ formation = <<>>
        /\ stop = TRUE
        /\ DriverAt("idle")
        /\ WorkersIdle
        /\ lastOp = NoOp

RateLimitFrame ==
    UNCHANGED <<graphVars, images, host, registry, client, formation, driverVars, workerVars>>

\* the body calls a method of the proxy; it handles the exception of the
\* call and goes on, or lets it leave the with block
ProxyCall ==
    /\ App.at = "body"
    /\ App.pos < Len(App.body)
    /\ LET call == App.body[App.pos + 1]
           r == proxy_call(App.buffered_changes, call)
       IN /\ \E handled \in BOOLEAN :
                App' = [App EXCEPT !.pos = @ + 1,
                                   !.buffered_changes = r.buffered_changes,
                                   !.last[call.kind] = call.value,
                                   !.raised = IF handled THEN None ELSE r.raised,
                                   !.at = IF r.raised # None /\ ~handled THEN "raised" ELSE @]
          /\ lastOp' = [op |-> "proxy", arg |-> call.kind, ign |-> FALSE,
                        ok |-> r.raised = None, pre |-> <<call.value>>]
    /\ RateLimitFrame

\* rate_limit lines 270-271: the body ended; running is cleared, and the
\* flush thread is joined in LeaveScope
EndBody ==
    /\ App.at = "body"
    /\ App.pos = Len(App.body)
    /\ App' = [App EXCEPT !.running = FALSE, !.at = "join"]
    /\ lastOp' = [op |-> "end", arg |-> None, ign |-> FALSE, ok |-> TRUE, pre |-> <<>>]
    /\ RateLimitFrame

\* line 272: flush_thread.join() returns when the flush thread has ended
LeaveScope ==
    /\ App.at = "join"
    /\ App.flusher = "ended"
    /\ App' = [App EXCEPT !.at = "exited"]
    /\ lastOp' = [op |-> "exit", arg |-> None, ign |-> FALSE, ok |-> TRUE, pre |-> <<>>]
    /\ RateLimitFrame

\* flusher line 242: the loop test
FlusherTest ==
    /\ App.flusher = "test"
    /\ App' = [App EXCEPT !.flusher = IF App.running THEN "set_extra_info" ELSE "ended"]
    /\ lastOp' = [op |-> "test", arg |-> None, ign |-> FALSE, ok |-> TRUE, pre |-> <<>>]
    /\ RateLimitFrame

\* flusher lines 244-246 and 248-250: a buffered call of the kind is applied
\* to the task and removed from the dictionary
Flush(kind, next) ==
    /\ App.flusher = kind
    /\ IF App.buffered_changes[kind] # None
       THEN App' = [App EXCEPT !.task[kind] = App.buffered_changes[kind],
                               !.buffered_changes[kind] = None, !.flusher = next]
       ELSE App' = [App EXCEPT !.flusher = next]
    /\ lastOp' = [op |-> "flush", arg |-> kind, ign |-> FALSE, ok |-> TRUE, pre |-> <<>>]
    /\ RateLimitFrame

\* flusher line 252: time.sleep(interval)
FlusherSleep ==
    /\ App.flusher = "sleep"
    /\ App' = [App EXCEPT !.flusher = "test"]
    /\ lastOp' = [op |-> "sleep", arg |-> None, ign |-> FALSE, ok |-> TRUE, pre |-> <<>>]
    /\ RateLimitFrame

RateLimitNext ==
    \/ ProxyCall
    \/ EndBody
    \/ LeaveScope
    \/ FlusherTest
    \/ Flush("set_extra_info", "update")
    \/ Flush("update", "sleep")
    \/ FlusherSleep

SpecRateLimit == RateLimitInit /\ [][RateLimitNext]_vars

ScopeExited == App.at \in {"exited", "raised"}

\* C32: when the rate_limit scope has exited, the most recent call of each
\* kind made through the proxy has been applied to the task
C32_LastCallApplied ==
    ScopeExited => \A k \in ProxyKinds : App.last[k] # None => App.task[k] = App.last[k]

\* the part of C32 that holds: a scope that exits normally has ended its
\* flush thread
C32_NormalExitStopsFlusher == App.at = "exited" => App.flusher = "ended" /\ ~App.running

\* ---------------------------------------------------------------------------
\* containers/profile.py  dump and load (SpecProfile)
\* ---------------------------------------------------------------------------

\* dict.get(key): None when the key is missing
Get(d, k) == IF k \in DOMAIN d THEN d[k] ELSE None

\* the dict {k: v} when the condition holds, the empty dict otherwise
Item(cond, k, v) == IF cond THEN k :> v ELSE <<>>

DevmodeRank == [m \in {"live", "src"} |-> IF m = "live" THEN 1 ELSE 2]

\* the data a profile holds for one container; mem_limit is the set of the
\* values under the key: empty when the key is missing (load line 74)
ContainerData ==
    [links : [optional : {<<>>, <<"db">>}, required : {<<>>, <<"web", "db">>}],
     devmodes : SUBSET {"src", "live"},
     ports : SUBSET {"8080:80"},
     environment : SUBSET {"MODE=dev"},
     ephemeral : {"True", "False"},
     default_boot : {None, "True", "False"},
     mem_limit : {{}, {0}, {64}}]

\* the profiles: a parent profile, a min-version and the data of container api
Profiles ==
    [parent_profile : {None, "base"}, version : {None, "1.2"},
     containers : {<<>>} \cup {"api" :> d : d \in ContainerData}]

\* dump lines 85-100: the details written for one container; links only if
\* populated, and sorted; any other key only if its value is truthy, sets as
\* sorted lists
dump_container(container_data) ==
    LET v == container_data.links
        links == Item(v.optional # <<>>, "optional", SortedSeq(SeqRange(v.optional), NameRank))
                 @@ Item(v.required # <<>>, "required", SortedSeq(SeqRange(v.required), NameRank))
    IN Item(DOMAIN links # {}, "links", links)
       @@ Item(container_data.devmodes # {}, "devmodes",
               SortedSeq(container_data.devmodes, DevmodeRank))
       @@ Item(container_data.ports # {}, "ports", container_data.ports)
       @@ Item(container_data.environment # {}, "environment", container_data.environment)
       @@ Item(Truthy(container_data.ephemeral), "ephemeral", container_data.ephemeral)
       @@ Item(Truthy(container_data.default_boot), "default_boot", container_data.default_boot)
       @@ Item(container_data.mem_limit \notin {{}, {0}}, "mem_limit",
               CHOOSE m \in container_data.mem_limit : TRUE)

\* dump lines 77-107
dump(profile) ==
    LET written == {c \in DOMAIN profile.containers :
                        /\ ~Truthy(profile.containers[c].ephemeral)
                        /\ DOMAIN dump_container(profile.containers[c]) # {}}
        cs == [c \in written |-> dump_container(profile.containers[c])]
    IN ("name" :> profile.parent_profile)
       @@ Item(written # {}, "containers", cs)
       @@ Item(profile.version # None, "min-version", profile.version)

\* load lines 53-75: the data of one container from its details
load_container(details) ==
    LET links == IF "links" \in DOMAIN details THEN details["links"] ELSE <<>>
    IN [links |-> [optional |-> IF "optional" \in DOMAIN links THEN links["optional"] ELSE <<>>,
                   required |-> IF "required" \in DOMAIN links THEN links["required"] ELSE <<>>],
        devmodes |-> IF "devmodes" \in DOMAIN details THEN SeqRange(details["devmodes"]) ELSE {},
        ports |-> IF "ports" \in DOMAIN details THEN details["ports"] ELSE {},
        environment |-> IF "environment" \in DOMAIN details THEN details["environment"] ELSE {},
        ephemeral |-> IF "ephemeral" \in DOMAIN details /\ Truthy(details["ephemeral"])
                      THEN details["ephemeral"] ELSE "False",
        default_boot |-> Get(details, "default_boot"),
        mem_limit |-> IF "mem_limit" \in DOMAIN details THEN {details["mem_limit"]} ELSE {}]

\* load lines 41-75, from the parsed YAML document
load(data) ==
    LET cs == IF "containers" \in DOMAIN data THEN data["containers"] ELSE <<>>
    IN [parent_profile |-> IF "inherits" \in DOMAIN data THEN data["inherits"]
                           ELSE Get(data, "name"),
        version |-> Get(data, "min-version"),
        containers |-> [c \in DOMAIN cs |-> load_container(cs[c])]]

ProfileApp(profile) ==
    [plugins |-> <<>>, profile |-> profile, at |-> "loaded", data |-> <<>>,
     reloaded |-> load("name" :> None)]

\* a user profile in memory, as loaded from its file or edited by a command
ProfileInit ==
    \E profile \in Profiles :
        /\ App = ProfileApp(profile)
        /\ images = [c \in Names |-> None]
        /\ registry = None
        /\ client = <<>>
        /\ containers = [c \in Names |-> Loaded([required |-> {}, optional |-> {}])]
        /\ dependencies = [c \in Names |-> {}]
        /\ host = [rn \in RNames |-> Absent]
        /\ formation = <<>>
        /\ stop = TRUE
        /\ DriverAt("idle")
        /\ WorkersIdle
        /\ lastOp = NoOp

ProfileFrame ==
    UNCHANGED <<graphVars, images, host, registry, client, formation, driverVars, workerVars>>

\* Profile.save lines 203-207: the dumped document is written to the file
SaveProfile ==
    /\ App.at = "loaded"
    /\ App' = [App EXCEPT !.data = dump(App.profile), !.at = "saved"]
    /\ lastOp' = [op |-> "dump", arg |-> None, ign |-> FALSE, ok |-> TRUE, pre |-> <<>>]
    /\ ProfileFrame

\* Profile(file_path) lines 27-29: a new profile loads the file
LoadProfile ==
    /\ App.at = "saved"
    /\ App' = [App EXCEPT !.reloaded = load(App.data), !.at = "reloaded"]
    /\ lastOp' = [op |-> "load", arg |-> None, ign |-> FALSE, ok |-> TRUE, pre |-> <<>>]
    /\ ProfileFrame

ProfileNext == SaveProfile \/ LoadProfile

SpecProfile == ProfileInit /\ [][ProfileNext]_vars

\* the data of a container in a profile; a container the profile does not
\* name has the data load gives to empty details
DataOf(profile, c) ==
    IF c \in DOMAIN profile.containers THEN profile.containers[c] ELSE load_container(<<>>)

SameLinks(a, b) ==
    /\ SeqRange(a.optional) = SeqRange(b.optional)
    /\ SeqRange(a.required) = SeqRange(b.required)

\* C33: loading the output of dump gives the same parent profile and
\* min-version and, for every container that is not ephemeral, the same links,
\* devmodes, ports, environment, default_boot and mem_limit; ephemeral
\* containers are absent
C33_RoundTrip ==
    App.at = "reloaded" =>
        /\ App.reloaded.parent_profile = App.profile.parent_profile
        /\ App.reloaded.version = App.profile.version
        /\ \A c \in DOMAIN App.profile.containers :
              IF Truthy(App.profile.containers[c].ephemeral)
              THEN c \notin DOMAIN App.reloaded.containers
              ELSE LET old == App.profile.containers[c]
                       new == DataOf(App.reloaded, c)
                   IN /\ SameLinks(new.links, old.links)
                      /\ new.devmodes = old.devmodes
                      /\ new.ports = old.ports
                      /\ new.environment = old.environment
                      /\ new.default_boot = old.default_boot
                      /\ new.mem_limit = old.mem_limit

\* the part of C33 that holds: everything but an explicit false default_boot
\* and a mem_limit of 0 comes back, links in sorted order
C33_RoundTripOfTruthy ==
    App.at = "reloaded" =>
        /\ App.reloaded.parent_profile = App.profile.parent_profile
        /\ App.reloaded.version = App.profile.version
        /\ \A c \in DOMAIN App.profile.containers :
              IF Truthy(App.profile.containers[c].ephemeral)
              THEN c \notin DOMAIN App.reloaded.containers
              ELSE LET old == App.profile.containers[c]
                       new == DataOf(App.reloaded, c)
                   IN /\ SameLinks(new.links, old.links)
                      /\ new.devmodes = old.devmodes
                      /\ new.ports = old.ports
                      /\ new.environment = old.environment
                      /\ old.default_boot # "False" => new.default_boot = old.default_boot
                      /\ old.mem_limit # {0} => new.mem_limit = old.mem_limit

====
